---- MODULE Spec2Model ----
(***************************************************************************)
(* LuCalendar: natural-language calendar commands.                         *)
(*                                                                         *)
(* The module models                                                       *)
(*   - the interpretation pipeline of the /process-command route           *)
(*     (commandPreprocessor.js, geminiService.js): preprocess, LLM call,   *)
(*     JSON extraction, normalizeResponse, parseCommandLocally, dispatch;  *)
(*   - the calendar service (calendarService.js): createEvent,             *)
(*     updateEvent, listEvents, deleteEvent, the event-reference context   *)
(*     and the calendar backend they call.                                 *)
(*                                                                         *)
(* Text is modelled at token level: a string is a sequence of tokens, a    *)
(* token being a word, a number, a punctuation mark or one blank.  Time is *)
(* counted in minutes.                                                     *)
(***************************************************************************)
EXTENDS Integers, Sequences, FiniteSets, TLC

VARIABLES
  \* ---- interpretation pipeline (one command of the route at a time)
  pPc,          \* position of the route handler
  pCmd,         \* req.body.command
  pMeta,        \* preprocessed.metadata
  pEnriched,    \* enrichedCommand, the text handed to processCommand
  pLlmCalls,    \* number of axios.post calls made to the LLM for pCmd
  pReply,       \* how the LLM call of pCmd ended
  pInterp,      \* what geminiService.processCommand returned or threw
  pParsed,      \* parsedCommand, the CanonicalAction handed to the executor
  pDispatch,    \* the calendarService function executeCalendarAction invoked
  pResponse,    \* the HTTP response of the route
  \* ---- calendar service
  events,       \* the calendar backend: event id -> event resource
  ctx,          \* lastHandledEventContext
  now,          \* Date.now(), in minutes
  req,          \* per command in flight: position, parameters and locals
  issued,       \* number of commands started
  failures,     \* number of backend calls that have failed
  \* ---- updateEvent's time computation as a function of its input
  uIn,          \* existing event and params drawn at Init
  uOut,         \* start and end computed by updateEvent
  \* ---- the service's functions applied to arguments drawn at Init
  fIn,          \* the function called and its arguments
  fOut          \* what the call returned or threw

vars == <<pPc, pCmd, pMeta, pEnriched, pLlmCalls, pReply, pInterp, pParsed, pDispatch,
          pResponse, events, ctx, now, req, issued, failures, uIn, uOut, fIn, fOut>>

pipeVars == <<pPc, pCmd, pMeta, pEnriched, pLlmCalls, pReply, pInterp, pParsed, pDispatch,
              pResponse>>
calVars  == <<events, ctx, now, req, issued, failures>>
updVars  == <<uIn, uOut>>
funVars  == <<fIn, fOut>>

----------------------------------------------------------------------------
(* Strings as token sequences                                              *)

Space == " "

\* String.prototype.toLowerCase on one token
LowerTok(t) ==
  CASE t = "Elimina"   -> "elimina"
    [] t = "Tutto"     -> "tutto"
    [] t = "Crea"      -> "crea"
    [] t = "Posticipa" -> "posticipa"
    [] t = "Anticipa"  -> "anticipa"
    [] t = "Sposta"    -> "sposta"
    [] t = "Mostra"    -> "mostra"
    [] t = "Riunione"  -> "riunione"
    [] t = "Mario"     -> "mario"
    [] t = "Luca"      -> "luca"
    [] t = "Pranzo"    -> "pranzo"
    [] t = "Dentista"  -> "dentista"
    [] t = "B."        -> "b."
    [] OTHER           -> t

toLowerCase(s) == [i \in 1..Len(s) |-> LowerTok(s[i])]

\* String.prototype.toUpperCase on one token
UpperTok(t) ==
  CASE t = "crea"     -> "CREA"
    [] t = "evento"   -> "EVENTO"
    [] t = "Create"   -> "CREATE"
    [] t = "event"    -> "EVENT"
    [] t = "Event"    -> "EVENT"
    [] t = "delete"   -> "DELETE"
    [] t = "remove"   -> "REMOVE"
    [] t = "view"     -> "VIEW"
    [] t = "events"   -> "EVENTS"
    [] t = "update"   -> "UPDATE"
    [] t = "elimina"  -> "ELIMINA"
    [] t = "sposta"   -> "SPOSTA"
    [] OTHER          -> t

toUpperCase(s) == [i \in 1..Len(s) |-> UpperTok(s[i])]

SetMin(S) == CHOOSE x \in S : \A y \in S : x <= y
SetMax(S) == CHOOSE x \in S : \A y \in S : x >= y

\* String.prototype.trim: leading and trailing blanks only
trim(s) ==
  LET idx == {i \in 1..Len(s) : s[i] # Space}
  IN  IF idx = {} THEN <<>> ELSE SubSeq(s, SetMin(idx), SetMax(idx))

\* The keywords that occur inside a longer word of the vocabulary
Substrings(t) ==
  CASE t = "dopodomani" -> {"dopodomani", "domani"}
    [] t = "mostrami"   -> {"mostrami", "mostra"}
    [] t = "creare"     -> {"creare", "crea"}
    [] t = "eliminare"  -> {"eliminare", "elimina"}
    [] OTHER            -> {t}

\* Positions where kw occurs in s (String.prototype.indexOf, all matches)
Occurrences(s, kw) ==
  IF Len(kw) = 1
  THEN {i \in 1..Len(s) : kw[1] \in Substrings(s[i])}
  ELSE {i \in 1..(Len(s) - Len(kw) + 1) : SubSeq(s, i, i + Len(kw) - 1) = kw}

\* String.prototype.includes
includes(s, kw) == Occurrences(s, kw) # {}

\* Number tokens: value and number of digits
IsNum(t) == t \in {"0", "1", "2", "3", "5", "15", "16", "23", "24", "30", "00", "05"}

NumVal(t) ==
  CASE t = "0" -> 0 [] t = "1" -> 1 [] t = "2" -> 2 [] t = "3" -> 3 [] t = "5" -> 5
    [] t = "15" -> 15 [] t = "16" -> 16 [] t = "23" -> 23 [] t = "24" -> 24
    [] t = "30" -> 30 [] t = "00" -> 0 [] t = "05" -> 5
    [] OTHER -> 0

NumDigits(t) == IF t \in {"0", "1", "2", "3", "5"} THEN 1 ELSE 2

\* Number.prototype.toString for the values the parsers print
NumStr(n) ==
  CASE n = 0 -> "0" [] n = 1 -> "1" [] n = 2 -> "2" [] n = 3 -> "3" [] n = 5 -> "5"
    [] n = 4 -> "4" [] n = 6 -> "6" [] n = 7 -> "7"
    [] n = 15 -> "15" [] n = 16 -> "16" [] n = 17 -> "17" [] n = 23 -> "23"
    [] n = 24 -> "24" [] n = 30 -> "30"
    [] OTHER -> "?"

\* [A-Za-z]+ : words made of ASCII letters only
IsAlpha(t) ==
  /\ ~IsNum(t)
  /\ t \notin {Space, ":", ".", ",", ";", "_", "{", "}", "B.", "b.",
              "lunedì", "martedì", "mercoledì", "giovedì", "venerdì"}

\* String.prototype.length of one token, and of a string
TokLen(t) ==
  CASE t \in {"riunione", "dentista", "Riunione", "Dentista"} -> 8
    [] t = "meeting" -> 7
    [] t \in {"pranzo", "Pranzo", "evento"} -> 6
    [] t \in {"mario", "Mario", "nuovo", "Nuovo"} -> 5
    [] t \in {"luca", "Luca"} -> 4
    [] t = "con" -> 3
    [] t \in {"b.", "B.", "di", "la", "il"} -> 2
    [] OTHER -> 1

RECURSIVE StrLen(_)
StrLen(s) == IF s = <<>> THEN 0 ELSE TokLen(Head(s)) + StrLen(Tail(s))

----------------------------------------------------------------------------
(* JavaScript objects: the set of keys present, and one typed field a key  *)

NoTM == [type |-> "", direction |-> "", amount |-> 0, unit |-> "", time |-> <<>>]

Shift(dir, amt, unit) ==
  [type |-> "SHIFT", direction |-> dir, amount |-> amt, unit |-> unit, time |-> <<>>]

Exact(t) ==
  [type |-> "EXACT", direction |-> "", amount |-> 0, unit |-> "", time |-> t]

\* The empty parameters object {}
P0 ==
  [keys |-> {}, title |-> <<>>, titolo |-> <<>>, description |-> <<>>,
   descrizione |-> <<>>, date |-> <<>>, data |-> <<>>, startTime |-> <<>>,
   ora_inizio |-> <<>>, endTime |-> <<>>, ora_fine |-> <<>>,
   attendees |-> <<>>, attendeesIsArray |-> TRUE, partecipanti |-> <<>>,
   timeModification |-> NoTM, query |-> <<>>, maxResults |-> 0,
   eventId |-> "", deleteAll |-> FALSE, attendeesAction |-> "",
   hoursToShift |-> 0, riepilogo |-> <<>>]

StringKeys == {"title", "titolo", "description", "descrizione", "date", "data",
               "startTime", "ora_inizio", "endTime", "ora_fine", "query",
               "riepilogo"}

\* obj.k = v
Set(p, k, v) == [p EXCEPT !.keys = @ \cup {k}, ![k] = v]

\* JavaScript truthiness of obj.k
Truthy(p, k) ==
  /\ k \in p.keys
  /\ k \in StringKeys => p[k] # <<>>
  /\ k \in {"eventId", "attendeesAction"} => p[k] # ""
  /\ k \in {"maxResults", "hoursToShift"} => p[k] # 0
  /\ k = "deleteAll" => p[k]

----------------------------------------------------------------------------
(* commandPreprocessor.js                                                  *)

\* minutes < 10 ? '0' + minutes : minutes
Pad2(m) ==
  CASE m = 0 -> "00" [] m = 1 -> "01" [] m = 2 -> "02" [] m = 3 -> "03"
    [] m = 5 -> "05" [] OTHER -> NumStr(m)

\* Index after the blanks that start at position i (\s*)
RECURSIVE SkipBlanks(_, _)
SkipBlanks(s, i) ==
  IF i <= Len(s) /\ s[i] = Space THEN SkipBlanks(s, i + 1) ELSE i

\* /(\d+)\s*or[ae]/ : positions of a number followed by "ora" or "ore"
HourMatches(s) ==
  {i \in 1..Len(s) :
     /\ IsNum(s[i])
     /\ LET j == SkipBlanks(s, i + 1)
        IN  j <= Len(s) /\ s[j] \in {"ora", "ore"}}

\* /(\d+)\s*minut[oi]/
MinuteMatches(s) ==
  {i \in 1..Len(s) :
     /\ IsNum(s[i])
     /\ LET j == SkipBlanks(s, i + 1)
        IN  j <= Len(s) /\ s[j] \in {"minuto", "minuti"}}

\* /alle (\d{1,2})[:\.]?(\d{2})?/ : positions of "alle", one blank, a number
AlleMatches(s) ==
  {i \in 1..(Len(s) - 2) :
     /\ "alle" \in Substrings(s[i])
     /\ s[i + 1] = Space
     /\ IsNum(s[i + 2])}

\* The (\d{2})? group after the hour at position h: its value, or 0
MinutesAfter(s, h) ==
  IF h + 2 <= Len(s) /\ s[h + 1] \in {":", "."}
       /\ IsNum(s[h + 2]) /\ NumDigits(s[h + 2]) = 2
  THEN NumVal(s[h + 2])
  ELSE 0

\* `${hours}:${minutes < 10 ? '0' + minutes : minutes}`
HourColonMinutes(s, h) ==
  <<NumStr(NumVal(s[h])), ":", Pad2(MinutesAfter(s, h))>>

\* /per (oggi|domani|questa settimana)/i : the captured group, <<>> if none
PerDateMatch(s) ==
  LET hits == {i \in 1..(Len(s) - 2) :
                 /\ s[i] = "per" /\ s[i + 1] = Space
                 /\ \/ "oggi" \in Substrings(s[i + 2])
                    \/ "domani" \in Substrings(s[i + 2])
                    \/ /\ i + 4 <= Len(s)
                       /\ SubSeq(s, i + 2, i + 4) = <<"questa", Space, "settimana">>}
  IN  IF hits = {} THEN <<>>
      ELSE LET i == SetMin(hits)
           IN  IF "oggi" \in Substrings(s[i + 2]) THEN <<"oggi">>
               ELSE IF "domani" \in Substrings(s[i + 2]) THEN <<"domani">>
               ELSE <<"questa", Space, "settimana">>

Weekdays == {"lunedì", "martedì", "mercoledì", "giovedì", "venerdì", "sabato", "domenica"}

\* The empty detectedEntities object
E0 ==
  [keys |-> {}, specificTime |-> <<>>, hourModifier |-> 0, minuteModifier |-> 0,
   modifier |-> "", specificDate |-> <<>>, weekday |-> "", period |-> ""]

extractDateReferences(text, ent) ==
  LET e1 == IF includes(text, <<"oggi">>) THEN Set(ent, "specificDate", <<"oggi">>)
            ELSE IF includes(text, <<"domani">>) THEN Set(ent, "specificDate", <<"domani">>)
            ELSE IF includes(text, <<"dopodomani">>)
                 THEN Set(ent, "specificDate", <<"dopodomani">>)
            ELSE ent
      wd == {i \in 1..Len(text) : text[i] \in Weekdays}
      e2 == IF wd # {} THEN Set(e1, "weekday", text[SetMin(wd)]) ELSE e1
      e3 == IF includes(text, <<"questa", Space, "settimana">>)
              THEN Set(e2, "period", "current_week")
            ELSE IF includes(text, <<"prossima", Space, "settimana">>)
              THEN Set(e2, "period", "next_week")
            ELSE IF includes(text, <<"questo", Space, "mese">>)
              THEN Set(e2, "period", "current_month")
            ELSE e2
  IN  e3

\* The metadata object preprocessCommand starts from
M0 ==
  [isSpecialCommand |-> FALSE, specialCommandType |-> "",
   hasDirectResponse |-> FALSE,
   directResponse |-> [action |-> <<>>, parameters |-> P0],
   hasTemporalContext |-> FALSE, hasMultipleActions |-> FALSE,
   detectedEntities |-> E0]

\* The special-command test without the comparison with 'elimina tutto'
IsDeleteAllCommandPhraseOnly(lowerCommand) ==
  includes(lowerCommand, <<"elimina", Space, "tutti", Space, "gli", Space, "eventi">>)

\* Line 26: lowerCommand === 'elimina tutto' || lowerCommand.includes(...)
IsDeleteAllCommand(lowerCommand) ==
  \/ lowerCommand = <<"elimina", Space, "tutto">>
  \/ includes(lowerCommand, <<"elimina", Space, "tutti", Space, "gli", Space, "eventi">>)

preprocessCommand(command) ==
  LET lowerCommand == trim(toLowerCase(command))
  IN
  IF IsDeleteAllCommand(lowerCommand)
  THEN LET dateMatch == PerDateMatch(lowerCommand)
           base == Set(P0, "deleteAll", TRUE)
           prm  == IF dateMatch # <<>> THEN Set(base, "date", dateMatch) ELSE base
       IN  [M0 EXCEPT !.isSpecialCommand = TRUE,
                      !.specialCommandType = "DELETE_ALL",
                      !.hasDirectResponse = TRUE,
                      !.directResponse = [action |-> <<"DELETE", "_", "EVENT">>,
                                          parameters |-> prm]]
  ELSE
    LET temporal == \/ includes(lowerCommand, <<"sposta">>)
                    \/ includes(lowerCommand, <<"anticipa">>)
                    \/ includes(lowerCommand, <<"posticipa">>)
        am == AlleMatches(lowerCommand)
        hm == HourMatches(lowerCommand)
        mm == MinuteMatches(lowerCommand)
        t1 == IF temporal /\ am # {}
              THEN Set(E0, "specificTime",
                       HourColonMinutes(lowerCommand, SetMin(am) + 2))
              ELSE E0
        t2 == IF temporal /\ hm # {}
              THEN Set(Set(t1, "hourModifier", NumVal(lowerCommand[SetMin(hm)])),
                       "modifier", "hour")
              ELSE t1
        t3 == IF temporal /\ mm # {}
              THEN Set(Set(t2, "minuteModifier", NumVal(lowerCommand[SetMin(mm)])),
                       "modifier", "minute")
              ELSE t2
        multi == \/ includes(lowerCommand, <<Space, "e", Space, "poi", Space>>)
                 \/ includes(lowerCommand, <<",", Space, "poi", Space>>)
                 \/ includes(lowerCommand, <<";", Space>>)
        refs == extractDateReferences(lowerCommand, E0)
        ents == extractDateReferences(lowerCommand, t3)
    IN  [M0 EXCEPT !.hasTemporalContext = temporal \/ refs.keys # {},
                   !.hasMultipleActions = multi,
                   !.detectedEntities = ents]

enrichCommand(command, metadata) ==
  IF metadata.isSpecialCommand /\ metadata.hasDirectResponse THEN command
  ELSE IF /\ metadata.hasTemporalContext
          /\ Truthy(metadata.detectedEntities, "specificTime")
          /\ ~includes(command, <<Space, "alle", Space>>)
       THEN command \o <<Space, "alle", Space>> \o metadata.detectedEntities.specificTime
       ELSE command

----------------------------------------------------------------------------
(* geminiService.js: the interpretation stage                              *)

CREATE_EVENT == <<"CREATE", "_", "EVENT">>
UPDATE_EVENT == <<"UPDATE", "_", "EVENT">>
VIEW_EVENTS  == <<"VIEW", "_", "EVENTS">>
DELETE_EVENT == <<"DELETE", "_", "EVENT">>

CanonicalActions == {CREATE_EVENT, UPDATE_EVENT, VIEW_EVENTS, DELETE_EVENT}

\* hourMatch ? parseInt(hourMatch[1]) : 1
HourCount(lowerCommand) ==
  LET hm == HourMatches(lowerCommand)
  IN  IF hm # {} THEN NumVal(lowerCommand[SetMin(hm)]) ELSE 1

\* /(sposta|posticipa|anticipa).+alle\s+(\d{1,2})[:\.]?(\d{2})?/i :
\* positions of the hour of an "alle" that follows one of the verbs
SpecificTimeMatches(s) ==
  {h \in 1..Len(s) :
     /\ IsNum(s[h])
     /\ \E v \in 1..Len(s), a \in 1..Len(s) :
          /\ v < a /\ a < h
          /\ Substrings(s[v]) \cap {"sposta", "posticipa", "anticipa"} # {}
          /\ "alle" \in Substrings(s[a])
          /\ a + 1 < h
          /\ \A j \in (a + 1)..(h - 1) : s[j] = Space}

\* extractTimeModification with the "alle HH:MM" branch tested before the
\* two shift branches
extractTimeModificationExactFirst(command) ==
  LET lowerCommand == toLowerCase(command)
      stm == SpecificTimeMatches(lowerCommand)
  IN
  IF stm # {}
  THEN [some |-> TRUE,
        tm |-> Exact(HourColonMinutes(lowerCommand, SetMax(stm)))]
  ELSE IF \/ includes(lowerCommand, <<"posticipa">>)
          \/ includes(lowerCommand, <<"ritarda">>)
          \/ includes(lowerCommand, <<"sposta">>)
          \/ includes(lowerCommand, <<"ora", Space, "in", Space, "avanti">>)
          \/ includes(lowerCommand, <<"ore", Space, "in", Space, "avanti">>)
  THEN [some |-> TRUE, tm |-> Shift("FORWARD", HourCount(lowerCommand), "HOUR")]
  ELSE IF \/ includes(lowerCommand, <<"anticipa">>)
          \/ includes(lowerCommand, <<"ora", Space, "prima">>)
          \/ includes(lowerCommand, <<"ore", Space, "prima">>)
  THEN [some |-> TRUE, tm |-> Shift("BACKWARD", HourCount(lowerCommand), "HOUR")]
  ELSE [some |-> FALSE, tm |-> NoTM]

\* Result: [some |-> FALSE] for null, else the descriptor
extractTimeModification(command) ==
  LET lowerCommand == toLowerCase(command)
      stm == SpecificTimeMatches(lowerCommand)
  IN
  IF \/ includes(lowerCommand, <<"posticipa">>)
     \/ includes(lowerCommand, <<"ritarda">>)
     \/ includes(lowerCommand, <<"sposta">>)
     \/ includes(lowerCommand, <<"ora", Space, "in", Space, "avanti">>)
     \/ includes(lowerCommand, <<"ore", Space, "in", Space, "avanti">>)
  THEN [some |-> TRUE, tm |-> Shift("FORWARD", HourCount(lowerCommand), "HOUR")]
  ELSE IF \/ includes(lowerCommand, <<"anticipa">>)
          \/ includes(lowerCommand, <<"ora", Space, "prima">>)
          \/ includes(lowerCommand, <<"ore", Space, "prima">>)
  THEN [some |-> TRUE, tm |-> Shift("BACKWARD", HourCount(lowerCommand), "HOUR")]
  ELSE IF stm # {}
  THEN [some |-> TRUE,
        tm |-> Exact(HourColonMinutes(lowerCommand, SetMax(stm)))]
  ELSE [some |-> FALSE, tm |-> NoTM]

\* /(?:riunione|appuntamento) con ([A-Za-z]+)(?:\s|$)/i : positions of the name
TitleMatches(command) ==
  {n \in 5..Len(command) :
     /\ LowerTok(command[n - 4]) \in {"riunione", "appuntamento"}
     /\ command[n - 3] = Space
     /\ LowerTok(command[n - 2]) = "con"
     /\ command[n - 1] = Space
     /\ IsAlpha(command[n])
     /\ n = Len(command) \/ command[n + 1] = Space}

\* /(\d{1,2})[:\.]?(\d{2})?\s*$/ : [found, hours, minutes]
TrailingTime(command) ==
  LET idx == {i \in 1..Len(command) : command[i] # Space}
      n   == IF idx = {} THEN 0 ELSE SetMax(idx)
  IN
  IF n >= 3 /\ IsNum(command[n]) /\ NumDigits(command[n]) = 2
       /\ command[n - 1] \in {":", "."} /\ IsNum(command[n - 2])
  THEN [found |-> TRUE, hours |-> NumVal(command[n - 2]),
        minutes |-> NumVal(command[n])]
  ELSE IF n >= 1 /\ IsNum(command[n])
  THEN [found |-> TRUE, hours |-> NumVal(command[n]), minutes |-> 0]
  ELSE [found |-> FALSE, hours |-> 0, minutes |-> 0]

\* `${hours}:${minutes || '00'}`
HourMinutesOr00(h, m) == <<NumStr(h), ":", IF m = 0 THEN "00" ELSE NumStr(m)>>

parseCommandLocally(command) ==
  LET lowerCommand == toLowerCase(command)
  IN
  IF includes(lowerCommand, <<"elimina", Space, "tutto">>)
  THEN [action |-> DELETE_EVENT,
        parameters |-> Set(Set(P0, "date", <<"oggi">>), "deleteAll", TRUE)]
  ELSE
    LET tmatch == TitleMatches(command)
        p1 == IF \/ includes(lowerCommand, <<"riunione", Space, "con">>)
                 \/ includes(lowerCommand, <<"appuntamento", Space, "con">>)
              THEN IF tmatch # {}
                   THEN LET name == command[SetMin(tmatch)]
                        IN  Set(Set(P0, "title",
                                    <<"Riunione", Space, "con", Space, name>>),
                                "attendees", <<(<<name>>)>>)
                   ELSE P0
              ELSE Set(P0, "title", <<"Nuovo", Space, "evento">>)
        tt == TrailingTime(command)
        p2 == IF tt.found
              THEN Set(Set(p1, "startTime", HourMinutesOr00(tt.hours, tt.minutes)),
                       "endTime", HourMinutesOr00((tt.hours + 1) % 24, tt.minutes))
              ELSE p1
        p3 == IF includes(lowerCommand, <<"oggi">>) THEN Set(p2, "date", <<"oggi">>)
              ELSE IF includes(lowerCommand, <<"domani">>)
                   THEN Set(p2, "date", <<"domani">>)
              ELSE p2
        etm == extractTimeModification(command)
        p4 == IF etm.some THEN Set(p3, "timeModification", etm.tm) ELSE p3
        action ==
          IF includes(lowerCommand, <<"crea">>) THEN CREATE_EVENT
          ELSE IF includes(lowerCommand, <<"mostra">>) THEN VIEW_EVENTS
          ELSE IF \/ includes(lowerCommand, <<"modifica">>)
                  \/ includes(lowerCommand, <<"sposta">>)
                  \/ includes(lowerCommand, <<"anticipa">>)
                  \/ includes(lowerCommand, <<"posticipa">>)
               THEN UPDATE_EVENT
          ELSE IF includes(lowerCommand, <<"elimina">>) THEN DELETE_EVENT
          ELSE VIEW_EVENTS
    IN  [action |-> action, parameters |-> p4]

----------------------------------------------------------------------------
(* The parsed LLM object: top-level action/azione labels, the nested       *)
(* parameters object, and the flat Italian fields in top                   *)

\* String.prototype.replace(' ', '_'): the first blank only
ReplaceFirstBlank(s) ==
  LET b == {i \in 1..Len(s) : s[i] = Space}
  IN  IF b = {} THEN s ELSE [s EXCEPT ![SetMin(b)] = "_"]

\* actionMapping of the flat Italian form, || 'CREATE_EVENT'
FlatActionMapping(azione) ==
  CASE azione = <<"crea", "_", "evento">>       -> CREATE_EVENT
    [] azione = <<"modifica", "_", "evento">>   -> UPDATE_EVENT
    [] azione = <<"visualizza", "_", "eventi">> -> VIEW_EVENTS
    [] azione = <<"elimina", "_", "evento">>    -> DELETE_EVENT
    [] OTHER -> CREATE_EVENT

\* actionMapping of the nested form; <<>> when the label is not a key
ActionMapping(action) ==
  CASE action = <<"CREA", Space, "EVENTO">>       -> CREATE_EVENT
    [] action = <<"MODIFICA", Space, "EVENTO">>   -> UPDATE_EVENT
    [] action = <<"VISUALIZZA", Space, "EVENTI">> -> VIEW_EVENTS
    [] action = <<"ELIMINA", Space, "EVENTO">>    -> DELETE_EVENT
    [] OTHER -> <<>>

\* Lines 344-360: the action label of the nested form
NormalizeAction(label) ==
  LET action == toUpperCase(label)
  IN  IF ActionMapping(action) # <<>> THEN ActionMapping(action)
      ELSE IF ~includes(action, <<"_">>) THEN ReplaceFirstBlank(toUpperCase(action))
      ELSE action

\* a.k || a.k2 for two string keys
Either(p, k, k2) == IF Truthy(p, k) THEN p[k] ELSE p[k2]

CopyField(np, p, k, k2) ==
  IF Truthy(p, k) \/ Truthy(p, k2) THEN Set(np, k, Either(p, k, k2)) ELSE np

\* Result: [ok |-> FALSE] when normalizeResponse throws
normalizeResponse(parsedResult, originalCommand) ==
  IF parsedResult.action = <<>> /\ parsedResult.azione # <<>>
  THEN
    LET top == parsedResult.top
        q1 == Set(P0, "title", Either(top, "riepilogo", "titolo"))
        q2 == Set(q1, "description", top.descrizione)
        q3 == Set(q2, "date", top.data)
        q4 == Set(q3, "startTime", top.ora_inizio)
        q5 == Set(q4, "endTime", top.ora_fine)
        q6 == Set(q5, "attendees",
                  IF "partecipanti" \in top.keys THEN top.partecipanti ELSE <<>>)
    IN  [ok |-> TRUE,
         val |-> [action |-> FlatActionMapping(toLowerCase(parsedResult.azione)),
                  parameters |-> q6]]
  ELSE IF parsedResult.action = <<>>
  THEN [ok |-> FALSE, val |-> [action |-> <<>>, parameters |-> P0]]
  ELSE
    LET action == NormalizeAction(parsedResult.action)
        parameters == IF parsedResult.hasParameters THEN parsedResult.parameters ELSE P0
        n1 == CopyField(P0, parameters, "title", "titolo")
        n2 == CopyField(n1, parameters, "description", "descrizione")
        n3 == CopyField(n2, parameters, "date", "data")
        n4 == CopyField(n3, parameters, "startTime", "ora_inizio")
        n5 == CopyField(n4, parameters, "endTime", "ora_fine")
        n6 == IF "attendees" \in parameters.keys
              THEN Set(n5, "attendees",
                       IF parameters.attendeesIsArray THEN parameters.attendees
                       ELSE <<parameters.attendees>>)
              ELSE IF "partecipanti" \in parameters.keys
              THEN Set(n5, "attendees", parameters.partecipanti)
              ELSE n5
        etm == extractTimeModification(originalCommand)
        n7 == IF "timeModification" \in parameters.keys
              THEN Set(n6, "timeModification", parameters.timeModification)
              ELSE IF ~Truthy(parameters, "startTime") /\ ~Truthy(parameters, "endTime")
                      /\ etm.some
              THEN Set(n6, "timeModification", etm.tm)
              ELSE n6
        n8 == IF Truthy(parameters, "query") THEN Set(n7, "query", parameters.query)
              ELSE n7
        n9 == IF action = VIEW_EVENTS /\ ~Truthy(n8, "maxResults")
              THEN Set(n8, "maxResults", 10)
              ELSE n8
    IN  [ok |-> TRUE, val |-> [action |-> action, parameters |-> n9]]

\* A parsed object of the nested form
Nested(label, prm) ==
  [action |-> label, azione |-> <<>>, hasParameters |-> TRUE,
   parameters |-> prm, top |-> P0]

\* A parsed object of the flat Italian form
Flat(label, top) ==
  [action |-> <<>>, azione |-> label, hasParameters |-> FALSE,
   parameters |-> P0, top |-> top]

\* The JSON bodies the LLM can answer with; "bytes" names the text between
\* the braces, "json" is what JSON.parse makes of it when "wellFormed"
JsonBody(b) ==
  CASE b = "B_create" ->
         [wellFormed |-> TRUE,
          json |-> Nested(CREATE_EVENT,
                     Set(Set(Set(P0, "title", <<"Riunione", Space, "con", Space, "Mario">>),
                             "date", <<"domani">>), "startTime", <<"15", ":", "00">>))]
    [] b = "B_update" ->
         [wellFormed |-> TRUE,
          json |-> Nested(UPDATE_EVENT,
                     Set(Set(P0, "title", <<"riunione">>), "timeModification",
                         Shift("FORWARD", 2, "HOUR")))]
    [] b = "B_update_plain" ->
         [wellFormed |-> TRUE,
          json |-> Nested(<<"update", "_", "event">>, Set(P0, "titolo", <<"riunione">>))]
    [] b = "B_view" ->
         [wellFormed |-> TRUE, json |-> Nested(<<"view", Space, "events">>, P0)]
    [] b = "B_crea_evento" ->
         [wellFormed |-> TRUE, json |-> Nested(<<"crea", Space, "evento">>, P0)]
    [] b = "B_delete" ->
         [wellFormed |-> TRUE,
          json |-> Nested(DELETE_EVENT, Set(P0, "title", <<"riunione">>))]
    [] b = "B_remove" ->
         [wellFormed |-> TRUE,
          json |-> Nested(<<"REMOVE", "_", "EVENT">>, Set(P0, "title", <<"riunione">>))]
    [] b = "B_elimina" ->
         [wellFormed |-> TRUE, json |-> Nested(<<"elimina">>, P0)]
    [] b = "B_flat" ->
         [wellFormed |-> TRUE,
          json |-> Flat(<<"elimina", "_", "evento">>,
                        Set(Set(P0, "riepilogo", <<"riunione">>), "data", <<"oggi">>))]
    [] b = "B_flat_unknown" ->
         [wellFormed |-> TRUE, json |-> Flat(<<"sposta">>, Set(P0, "data", <<"oggi">>))]
    [] b = "B_no_action" ->
         [wellFormed |-> TRUE,
          json |-> [action |-> <<>>, azione |-> <<>>, hasParameters |-> TRUE,
                    parameters |-> Set(P0, "title", <<"riunione">>), top |-> P0]]
    [] b = "B_time_fixed" ->
         [wellFormed |-> TRUE,
          json |-> Nested(UPDATE_EVENT,
                     Set(Set(P0, "title", <<"riunione">>), "startTime", <<"15", ":", "00">>))]
    [] OTHER -> \* "B_time_quoted" ("15":00") and "B_garbage" do not parse
         [wellFormed |-> FALSE, json |-> Nested(<<>>, P0)]

Bodies == {"B_create", "B_update", "B_update_plain", "B_view", "B_crea_evento",
           "B_delete", "B_remove", "B_elimina", "B_flat", "B_flat_unknown",
           "B_no_action", "B_time_quoted", "B_garbage"}

\* jsonText.replace(/"(\d{1,2})":(\d{2})"/g, '"$1:$2"')
RepairTimeQuotes(text) ==
  [i \in 1..Len(text) |-> IF text[i] = "B_time_quoted" THEN "B_time_fixed" ELSE text[i]]

\* responseText.replace(/```json|```/g, '').trim(); the two code-fence
\* markers are the tokens "FENCE_JSON" and "FENCE"
StripFences(text) ==
  LET keep == {i \in 1..Len(text) : text[i] \notin {"FENCE_JSON", "FENCE"}}
      F[i \in 0..Len(text)] ==
        IF i = 0 THEN <<>>
        ELSE IF i \in keep THEN Append(F[i - 1], text[i]) ELSE F[i - 1]
  IN  trim(F[Len(text)])

\* Result: [ok |-> FALSE] when parseGeminiResponse throws
parseGeminiResponse(responseText, originalCommand) ==
  IF ~includes(responseText, <<"{">>) \/ ~includes(responseText, <<"}">>)
  THEN [ok |-> FALSE, val |-> [action |-> <<>>, parameters |-> P0]]
  ELSE
    LET stripped   == StripFences(responseText)
        startIndex == SetMin(Occurrences(stripped, <<"{">>))
        endIndex   == SetMax(Occurrences(stripped, <<"}">>)) + 1
        sliced     == IF endIndex > startIndex
                      THEN SubSeq(stripped, startIndex, endIndex - 1)
                      ELSE stripped
        jsonText   == RepairTimeQuotes(sliced)
        parses     == /\ Len(jsonText) = 3
                      /\ jsonText[1] = "{" /\ jsonText[3] = "}"
                      /\ JsonBody(jsonText[2]).wellFormed
    IN  IF parses
        THEN normalizeResponse(JsonBody(jsonText[2]).json, originalCommand)
        ELSE [ok |-> FALSE, val |-> [action |-> <<>>, parameters |-> P0]]

\* The ways the axios.post to the LLM can end
LlmReplyKinds == {"error", "timeout", "empty_data", "no_candidates", "text"}

\* processCommand with the inner catch rethrowing instead of falling back
processCommandRethrow(command, reply) ==
  IF reply.kind # "text"
  THEN [threw |-> FALSE, fallback |-> TRUE, val |-> parseCommandLocally(command)]
  ELSE LET r == parseGeminiResponse(reply.text, command)
       IN  IF r.ok THEN [threw |-> FALSE, fallback |-> FALSE, val |-> r.val]
           ELSE [threw |-> TRUE, fallback |-> FALSE, val |-> r.val]

\* Result: the value returned, whether a fallback branch produced it, and
\* whether an error left the function
processCommand(command, reply) ==
  IF reply.kind # "text"
  THEN \* axios rejects, or one of the two throws of lines 124-143: outer catch
       [threw |-> FALSE, fallback |-> TRUE, val |-> parseCommandLocally(command)]
  ELSE LET r == parseGeminiResponse(reply.text, command)
       IN  IF r.ok THEN [threw |-> FALSE, fallback |-> FALSE, val |-> r.val]
           ELSE [threw |-> FALSE, fallback |-> TRUE,
                 val |-> parseCommandLocally(command)]

----------------------------------------------------------------------------
(* The /process-command route (geminiService.js 698-850)                   *)

enrichParametersWithTemporalContext(parameters, metadata) ==
  LET ent == metadata.detectedEntities
      a == IF Truthy(ent, "specificTime") /\ ~Truthy(parameters, "startTime")
           THEN Set(parameters, "startTime", ent.specificTime) ELSE parameters
      b == IF Truthy(ent, "specificDate") /\ ~Truthy(a, "date")
           THEN Set(a, "date", ent.specificDate) ELSE a
      amount == IF ent.hourModifier # 0 THEN ent.hourModifier
                ELSE IF ent.minuteModifier # 0 THEN ent.minuteModifier ELSE 1
      c == IF "modifier" \in ent.keys /\ "timeModification" \notin b.keys
           THEN Set(b, "timeModification",
                    Shift(IF ent.modifier = "hour" THEN "FORWARD" ELSE "BACKWARD",
                          amount,
                          IF ent.modifier = "hour" THEN "HOUR" ELSE "MINUTE"))
           ELSE b
  IN  c

\* The switch with the VIEW_EVENTS case falling through to the next case
executeCalendarActionViewFallsThrough(parsedCommand) ==
  CASE parsedCommand.action = CREATE_EVENT -> "createEvent"
    [] parsedCommand.action = UPDATE_EVENT -> "updateEvent"
    [] parsedCommand.action = VIEW_EVENTS  -> "deleteEvent"
    [] parsedCommand.action = DELETE_EVENT -> "deleteEvent"
    [] OTHER -> "unsupported"

\* The switch of executeCalendarAction: the service function invoked
executeCalendarAction(parsedCommand) ==
  CASE parsedCommand.action = CREATE_EVENT -> "createEvent"
    [] parsedCommand.action = UPDATE_EVENT -> "updateEvent"
    [] parsedCommand.action = VIEW_EVENTS  -> "listEvents"
    [] parsedCommand.action = DELETE_EVENT -> "deleteEvent"
    [] OTHER -> "unsupported"

\* The commands typed by the user
Commands ==
  { <<"elimina", Space, "tutto">>,
    <<Space, "Elimina", Space, "Tutto", Space>>,
    <<"elimina", Space, "tutti", Space, "gli", Space, "eventi", Space, "per", Space, "domani">>,
    <<"elimina", Space, "tutto", Space, "per", Space, "oggi">>,
    <<"Crea", Space, "una", Space, "riunione", Space, "con", Space, "Mario", Space,
      "domani", Space, "alle", Space, "15">>,
    <<"Posticipa", Space, "la", Space, "riunione", Space, "con", Space, "Mario", Space,
      "di", Space, "2", Space, "ore">>,
    <<"anticipa", Space, "la", Space, "riunione", Space, "di", Space, "30", Space, "minuti">>,
    <<"Sposta", Space, "la", Space, "riunione", Space, "di", Space, "domani", Space,
      "alle", Space, "16">>,
    <<"mostrami", Space, "gli", Space, "eventi", Space, "di", Space, "oggi">>,
    <<"elimina", Space, "la", Space, "riunione", Space, "con", Space, "Mario">>,
    <<"pranzo", Space, "dopodomani", Space, "15", ":", "30">>,
    <<"anticipa", Space, "la", Space, "riunione", Space, "di", Space, "2", Space, "ore">>,
    <<"ciao">> }

\* The completions the LLM can return
LlmTexts ==
  { <<"{", b, "}">> : b \in Bodies } \cup
  { <<"FENCE_JSON", "{", "B_create", "}", "FENCE">>,
    <<"prose", Space, "{", "B_update", "}", Space, "prose">>,
    <<"prose">>,
    <<"}", "B_view", "{">> }

LlmReplies ==
  { [kind |-> k, text |-> <<>>] : k \in LlmReplyKinds \ {"text"} } \cup
  { [kind |-> "text", text |-> t] : t \in LlmTexts }

NoReply  == [kind |-> "none", text |-> <<>>]
NoAction == [action |-> <<>>, parameters |-> P0]
NoInterp == [threw |-> FALSE, fallback |-> FALSE, val |-> NoAction]

\* router.post: from the request to the first await
Receive(command) ==
  /\ pPc = "idle"
  /\ pCmd' = command
  /\ pMeta' = preprocessCommand(command)
  /\ LET metadata == pMeta'
     IN  /\ pEnriched' = enrichCommand(command, metadata)
         /\ pReply' = NoReply
         /\ pInterp' = NoInterp
         /\ pResponse' = "none"
         /\ IF metadata.isSpecialCommand /\ metadata.hasDirectResponse
            THEN /\ pParsed' = metadata.directResponse
                 /\ pDispatch' = executeCalendarAction(metadata.directResponse)
                 /\ pLlmCalls' = 0
                 /\ pPc' = "executing"
            ELSE /\ pParsed' = NoAction
                 /\ pDispatch' = "none"
                 /\ pLlmCalls' = 1
                 /\ pPc' = "awaitLlm"
  /\ UNCHANGED <<calVars, updVars, funVars>>

\* The LLM call ends; processCommand returns and the route goes on to the
\* await of executeCalendarAction
LlmDone(reply) ==
  /\ pPc = "awaitLlm"
  /\ pInterp' = processCommand(pEnriched, reply)
  /\ LET r == pInterp'
         prm == IF pMeta.hasTemporalContext
                THEN enrichParametersWithTemporalContext(r.val.parameters, pMeta)
                ELSE r.val.parameters
         parsedCommand == [action |-> r.val.action, parameters |-> prm]
     IN  /\ pReply' = reply
         /\ IF r.threw
            THEN /\ pResponse' = "error500"
                 /\ pPc' = "responded"
                 /\ UNCHANGED <<pParsed, pDispatch>>
            ELSE IF r.val.action = <<>>
            THEN /\ pResponse' = "error400"
                 /\ pPc' = "responded"
                 /\ UNCHANGED <<pParsed, pDispatch>>
            ELSE /\ pParsed' = parsedCommand
                 /\ pDispatch' = executeCalendarAction(parsedCommand)
                 /\ pPc' = "executing"
                 /\ UNCHANGED pResponse
  /\ UNCHANGED <<pCmd, pMeta, pEnriched, pLlmCalls, calVars, updVars, funVars>>

\* executeCalendarAction settles: res.json({result}) or the 500 of the catch
ExecDone(threw) ==
  /\ pPc = "executing"
  /\ pDispatch = "unsupported" => ~threw
  /\ pResponse' = IF threw THEN "error500" ELSE "result"
  /\ pPc' = "responded"
  /\ UNCHANGED <<pCmd, pMeta, pEnriched, pLlmCalls, pReply, pInterp, pParsed, pDispatch,
                 calVars, updVars, funVars>>

\* The next request arrives
NextRequest ==
  /\ pPc = "responded"
  /\ pPc' = "idle"
  /\ UNCHANGED <<pCmd, pMeta, pEnriched, pLlmCalls, pReply, pInterp, pParsed, pDispatch,
                 pResponse, calVars, updVars, funVars>>

----------------------------------------------------------------------------
(* dateUtils.js and the time arithmetic of calendarService.js.             *)
(* An instant is a number of minutes of local time; day d runs from        *)
(* d * Day to (d + 1) * Day.                                               *)

Hour == 60
Day  == 24 * Hour

\* Integer division rounding down, also for negative numerators (Math.floor)
FloorDiv(a, b) == IF a >= 0 THEN a \div b ELSE -((-a + b - 1) \div b)

\* date.setHours(0, 0, 0, 0)
Midnight(t) == FloorDiv(t, Day) * Day

\* date.setHours(h, m, 0, 0)
setHours(t, h, m) == Midnight(t) + h * Hour + m

\* Date.prototype.getDay: 0 is Sunday; minute 0 is the midnight that opens
\* a Thursday, as the epoch does
getDay(t) == (FloorDiv(t, Day) + 4) % 7

\* Object.entries(dayMapping), in insertion order
dayMapping ==
  << <<"lunedì", 1>>, <<"lunedi", 1>>, <<"martedì", 2>>, <<"martedi", 2>>,
     <<"mercoledì", 3>>, <<"mercoledi", 3>>, <<"giovedì", 4>>, <<"giovedi", 4>>,
     <<"venerdì", 5>>, <<"venerdi", 5>>, <<"sabato", 6>>, <<"domenica", 0>> >>

\* parseNextDay without the step from 0 to 7 days
parseNextDaySameDay(text, baseDate) ==
  LET hits == {i \in 1..Len(dayMapping) : includes(text, <<dayMapping[i][1]>>)}
  IN  IF hits # {}
      THEN baseDate + ((dayMapping[SetMin(hits)][2] + 7 - getDay(baseDate)) % 7) * Day
      ELSE IF includes(text, <<"settimana">>) THEN baseDate + 7 * Day
      ELSE baseDate

parseNextDay(text, baseDate) ==
  LET hits == {i \in 1..Len(dayMapping) : includes(text, <<dayMapping[i][1]>>)}
  IN  IF hits # {}
      THEN LET dayNum == dayMapping[SetMin(hits)][2]
               currentDay == getDay(baseDate)
               daysToAdd == (dayNum + 7 - currentDay) % 7
           IN  baseDate + (IF daysToAdd = 0 THEN 7 ELSE daysToAdd) * Day
      ELSE IF includes(text, <<"settimana">>) THEN baseDate + 7 * Day
      ELSE baseDate

\* Result: [threw, value]; dateText = <<>> stands for undefined, on which
\* dateText.toLowerCase() raises a TypeError
parseDateFromText(dateText, present, baseDate) ==
  LET today == Midnight(baseDate)
      text  == trim(toLowerCase(dateText))
  IN  IF ~present THEN [threw |-> TRUE, value |-> 0]
      ELSE IF text = <<"oggi">> THEN [threw |-> FALSE, value |-> today]
      ELSE IF text = <<"domani">> THEN [threw |-> FALSE, value |-> today + Day]
      ELSE IF text = <<"dopodomani">> THEN [threw |-> FALSE, value |-> today + 2 * Day]
      ELSE IF includes(text, <<"prossimo">>) \/ includes(text, <<"prossima">>)
      THEN [threw |-> FALSE, value |-> parseNextDay(text, today)]
      ELSE [threw |-> FALSE, value |-> baseDate]

\* time.split(':').map(Number): [valid, h, m]
SplitTime(time) ==
  IF Len(time) = 3 /\ IsNum(time[1]) /\ time[2] = ":" /\ IsNum(time[3])
  THEN [valid |-> TRUE, h |-> NumVal(time[1]), m |-> NumVal(time[3])]
  ELSE [valid |-> FALSE, h |-> 0, m |-> 0]

\* shiftMs of handleTimeModification, in minutes
ShiftOf(timeModification) ==
  LET magnitude == IF timeModification.unit = "HOUR"
                     THEN timeModification.amount * Hour
                   ELSE IF timeModification.unit = "MINUTE"
                     THEN timeModification.amount
                   ELSE 0
  IN  IF timeModification.direction = "BACKWARD" THEN -magnitude ELSE magnitude

\* handleTimeModification moving the end without the sign of the shift
handleTimeModificationUnsignedEnd(timeModification, originalStart, originalEnd) ==
  LET shift == ShiftOf(timeModification)
  IN  [start |-> originalStart + shift,
       end   |-> originalEnd + (IF shift < 0 THEN -shift ELSE shift)]

handleTimeModification(timeModification, originalStart, originalEnd) ==
  [start |-> originalStart + ShiftOf(timeModification),
   end   |-> originalEnd + ShiftOf(timeModification)]

\* The four branches of lines 354-447, each as the start and end it assigns
ByHoursToShift(params, originalStart, originalEnd) ==
  [start |-> originalStart + params.hoursToShift * Hour,
   end   |-> originalEnd + params.hoursToShift * Hour]

ByStartTime(params, originalStart, originalEnd) ==
  LET st == SplitTime(params.startTime)
      newStart == setHours(originalStart, st.h, st.m)
      newEnd   == newStart + (originalEnd - originalStart)
      et == SplitTime(params.endTime)
      endSet == setHours(newEnd, et.h, et.m)
  IN  [start |-> newStart,
       end   |-> IF Truthy(params, "endTime")
                 THEN IF endSet <= newStart THEN endSet + Day ELSE endSet
                 ELSE newEnd]

ByDate(params, originalStart, originalEnd, baseDate) ==
  LET targetDate == parseDateFromText(params.date, TRUE, baseDate).value
      newStart   == Midnight(targetDate) + (originalStart - Midnight(originalStart))
      daysDiff   == FloorDiv(newStart - originalStart, Day)
  IN  [start |-> newStart, end |-> originalEnd + daysDiff * Day]

\* The branch of the if / else-if chain that runs
TimeBranch(params) ==
  IF "timeModification" \in params.keys THEN "timeModification"
  ELSE IF Truthy(params, "hoursToShift") THEN "hoursToShift"
  ELSE IF Truthy(params, "startTime") THEN "startTime"
  ELSE IF Truthy(params, "date") THEN "date"
  ELSE "none"

\* The chain with the date branch tested before the startTime branch
UpdatedTimesDateFirst(params, originalStart, originalEnd, baseDate) ==
  IF "timeModification" \in params.keys
    THEN handleTimeModification(params.timeModification, originalStart, originalEnd)
  ELSE IF Truthy(params, "hoursToShift")
    THEN ByHoursToShift(params, originalStart, originalEnd)
  ELSE IF Truthy(params, "date")
    THEN ByDate(params, originalStart, originalEnd, baseDate)
  ELSE IF Truthy(params, "startTime")
    THEN ByStartTime(params, originalStart, originalEnd)
  ELSE [start |-> originalStart, end |-> originalEnd]

\* start and end of updatedEvent (lines 354-447)
UpdatedTimes(params, originalStart, originalEnd, baseDate) ==
  CASE TimeBranch(params) = "timeModification" ->
         handleTimeModification(params.timeModification, originalStart, originalEnd)
    [] TimeBranch(params) = "hoursToShift" ->
         ByHoursToShift(params, originalStart, originalEnd)
    [] TimeBranch(params) = "startTime" ->
         ByStartTime(params, originalStart, originalEnd)
    [] TimeBranch(params) = "date" ->
         ByDate(params, originalStart, originalEnd, baseDate)
    [] OTHER -> [start |-> originalStart, end |-> originalEnd]

\* new Date(NaN).toISOString() raises a RangeError
UpdatedTimesThrow(params) ==
  /\ TimeBranch(params) = "startTime"
  /\ \/ ~SplitTime(params.startTime).valid
     \/ Truthy(params, "endTime") /\ ~SplitTime(params.endTime).valid

----------------------------------------------------------------------------
(* The calendar backend: Google Calendar behind calendar.events            *)

EventIds == {"e1", "e2", "e3"}

NoEvent == [live |-> FALSE, summary |-> <<>>, start |-> 0, end |-> 0,
            attendees |-> <<>>]

IdRank(id) == CASE id = "e1" -> 1 [] id = "e2" -> 2 [] OTHER -> 3

\* Events are listed by ascending start, then by id
Before(evs, a, b) ==
  \/ evs[a].start < evs[b].start
  \/ evs[a].start = evs[b].start /\ IdRank(a) < IdRank(b)

RECURSIVE Ordered(_, _)
Ordered(evs, ids) ==
  IF ids = {} THEN <<>>
  ELSE LET first == CHOOSE a \in ids : \A b \in ids \ {a} : Before(evs, a, b)
       IN  <<first>> \o Ordered(evs, ids \ {first})

\* calendar.events.list: live events ending after timeMin and starting
\* before timeMax, as a sequence of ids
ListEvents(evs, timeMin, timeMax) ==
  Ordered(evs, {id \in EventIds : /\ evs[id].live
                                  /\ evs[id].end > timeMin
                                  /\ evs[id].start < timeMax})

\* The first n elements: the maxResults parameter
Take(s, n) == SubSeq(s, 1, IF Len(s) < n THEN Len(s) ELSE n)

\* The q parameter: every word of the query occurs in the summary
QueryMatches(summary, q) ==
  \A i \in 1..Len(q) :
     q[i] = Space \/ includes(toLowerCase(summary), <<LowerTok(q[i])>>)

----------------------------------------------------------------------------
(* calendarService.js: the event reference resolver                        *)

NoContext == [id |-> "", title |-> <<>>, timestamp |-> 0, set |-> FALSE]

\* contextTimeValid, in minutes
ContextTimeValid == 5

\* getLastEventIdFromContext with <= in place of <
getLastEventIdFromContextInclusive(context, dateNow) ==
  IF context.set /\ context.id # "" /\ (dateNow - context.timestamp) <= ContextTimeValid
  THEN context.id ELSE ""

\* "" stands for null
getLastEventIdFromContext(context, dateNow) ==
  IF context.set /\ context.id # "" /\ (dateNow - context.timestamp) < ContextTimeValid
  THEN context.id ELSE ""

\* updateEventContext assigning id and timestamp and leaving the title
updateEventContextKeepTitle(context, eventId, eventTitle, dateNow) ==
  IF eventId # "" /\ eventTitle # <<>>
  THEN [context EXCEPT !.id = eventId, !.timestamp = dateNow, !.set = TRUE]
  ELSE context

updateEventContext(context, eventId, eventTitle, dateNow) ==
  IF eventId # "" /\ eventTitle # <<>>
  THEN [id |-> eventId, title |-> eventTitle, timestamp |-> dateNow, set |-> TRUE]
  ELSE context

\* searchTitle.replace(/con\s+/, '')
RemoveCon(s) ==
  LET hits == {i \in 1..(Len(s) - 1) : s[i] = "con" /\ s[i + 1] = Space}
  IN  IF hits = {} THEN s
      ELSE LET i == SetMin(hits)
               j == SkipBlanks(s, i + 1)
           IN  SubSeq(s, 1, i - 1) \o SubSeq(s, j, Len(s))

\* searchTitle.split(/\s+/)
Words(s) ==
  LET F[i \in 0..Len(s)] ==
        IF i = 0 THEN <<>>
        ELSE IF s[i] = Space THEN F[i - 1] ELSE Append(F[i - 1], s[i])
  IN  F[Len(s)]

\* The searchVariants array of findEventByTitle
SearchVariants(searchTitle) ==
  LET w == Words(searchTitle)
      base == << searchTitle, RemoveCon(searchTitle),
                 IF Len(w) > 1 THEN <<w[1]>> ELSE <<>>,
                 IF Len(w) > 1 THEN <<w[Len(w)]>> ELSE <<>> >>
      P[i \in 0..Len(w)] ==
        IF i = 0 THEN <<>>
        ELSE IF IsAlpha(w[i]) /\ TokLen(w[i]) > 2
                  /\ w[i] \notin {"con", "alle", "del", "di"}
             THEN Append(P[i - 1], <<w[i]>>)
             ELSE P[i - 1]
  IN  SelectSeq(base, LAMBDA v : v # <<>>) \o P[Len(w)]

\* Math.abs(Math.floor((now - eventDate) / (24 * 60 * 60 * 1000)))
DaysAway(dateNow, eventDate) ==
  LET d == FloorDiv(dateNow - eventDate, Day) IN IF d < 0 THEN -d ELSE d

\* The score of one candidate, multiplied by searchTitle.length
ScaledScore(ev, searchTitle, dateNow) ==
  LET eventTitle == toLowerCase(ev.summary)
      L == StrLen(searchTitle)
      variants == SearchVariants(searchTitle)
      V[i \in 0..Len(variants)] ==
        IF i = 0 THEN 0
        ELSE V[i - 1] + (IF includes(eventTitle, variants[i])
                         THEN 20 * L + 30 * StrLen(variants[i]) ELSE 0)
      away == DaysAway(dateNow, ev.start)
  IN  IF eventTitle = searchTitle THEN 100 * L
      ELSE V[Len(variants)] + (IF away < 3 THEN (3 - away) * 10 * L ELSE 0)

\* Result: [found, id]; found = FALSE when findEventByTitle throws
findEventByTitle(evs, items, title, dateNow) ==
  LET searchTitle == toLowerCase(title)
      L == StrLen(searchTitle)
      \* <<bestMatch, bestMatchScore>> after the first i candidates
      B[i \in 0..Len(items)] ==
        IF i = 0 THEN <<"", 0>>
        ELSE LET score == ScaledScore(evs[items[i]], searchTitle, dateNow)
             IN  IF score > B[i - 1][2] THEN <<items[i], score>> ELSE B[i - 1]
      best == B[Len(items)]
      today == Midnight(dateNow)
      recentMeetings ==
        {i \in 1..Len(items) :
           /\ evs[items[i]].start >= today
           /\ evs[items[i]].start < today + 2 * Day
           /\ includes(toLowerCase(evs[items[i]].summary), <<"riunione">>)}
  IN  IF items = <<>> THEN [found |-> FALSE, id |-> ""]
      ELSE IF best[1] # "" /\ best[2] > 20 * L THEN [found |-> TRUE, id |-> best[1]]
      ELSE IF /\ includes(searchTitle, <<"riunione">>)
              /\ ~includes(searchTitle, <<"con">>)
              /\ Cardinality(recentMeetings) = 1
           THEN [found |-> TRUE, id |-> items[CHOOSE i \in recentMeetings : TRUE]]
      ELSE [found |-> FALSE, id |-> ""]

\* Math.abs(dateA - now)
Distance(dateNow, t) == IF t < dateNow THEN dateNow - t ELSE t - dateNow

\* Result: [found, id]
findMostRecentEventByType(evs, items, eventType, dateNow) ==
  LET filtered == {i \in 1..Len(items) :
                     includes(toLowerCase(evs[items[i]].summary), toLowerCase(eventType))}
      closest  == {i \in filtered :
                     \A j \in filtered :
                        Distance(dateNow, evs[items[i]].start)
                          <= Distance(dateNow, evs[items[j]].start)}
  IN  IF filtered = {} THEN [found |-> FALSE, id |-> ""]
      ELSE [found |-> TRUE, id |-> items[SetMin(closest)]]

----------------------------------------------------------------------------
(* calendarService.js: createEvent, updateEvent, listEvents, deleteEvent.  *)
(* A command is executed in steps, one for each stretch of code between    *)
(* two awaits; the backend call an await waits for takes effect, or fails, *)
(* at the start of the step that follows it.                               *)

Requests == {"r1", "r2"}

\* Bounds of the exploration: commands started, backend calls that fail,
\* minutes the clock advances
MaxIssued   == 2
MaxFailures == 1
MaxElapsed  == 6

NoResult == [status |-> "none", message |-> "", eventId |-> "", count |-> 0,
             potentialDuplicate |-> FALSE]

Success(msg, id, n) ==
  [status |-> "success", message |-> msg, eventId |-> id, count |-> n,
   potentialDuplicate |-> FALSE]

\* throw new Error(msg), which the route turns into a 500 with details
Failure(msg) ==
  [status |-> "failure", message |-> msg, eventId |-> "", count |-> 0,
   potentialDuplicate |-> FALSE]

\* return {success: false, message: msg}: a result, not an exception
Refused(msg) ==
  [status |-> "refused", message |-> msg, eventId |-> "", count |-> 0,
   potentialDuplicate |-> FALSE]

\* A request slot; the fields after result are history kept for the properties
R0 ==
  [pc |-> "idle", action |-> <<>>, params |-> P0, eventId |-> "",
   start |-> 0, end |-> 0, updated |-> NoEvent, items |-> <<>>, idx |-> 0,
   result |-> NoResult,
   original |-> NoEvent,      \* the event as calendar.events.get returned it
   listed |-> <<>>,           \* what the batch delete's list call returned
   attempted |-> <<>>,        \* ids a delete call was made for
   deleted |-> <<>>,          \* ids a delete call succeeded for
   backendFailed |-> FALSE,   \* some backend call of this command failed
   unresolved |-> FALSE,      \* no target id could be determined
   ctxRead |-> FALSE,         \* getLastEventIdFromContext was called
   ctxAtRead |-> NoContext,   \* the context it saw
   readAt |-> 0,              \* Date.now() at that call
   ctxId |-> "",              \* what it returned
   ctxAfter |-> NoContext,    \* the context when the command returned
   doneAt |-> 0]              \* Date.now() when the command returned

\* The condition of line 574
IsBatchDelete(params) ==
  \/ Truthy(params, "date") /\ ~Truthy(params, "eventId") /\ ~Truthy(params, "title")
  \/ Truthy(params, "deleteAll")

\* The command returns or throws
Finish(r, rq, res) ==
  /\ req' = [req EXCEPT ![r] = [rq EXCEPT !.pc = "done", !.result = res,
                                          !.ctxAfter = ctx', !.doneAt = now]]

\* prepareDateTime(date, time)
prepareDateTime(params, timeKey, dateNow) ==
  LET baseDate == IF "date" \in params.keys
                  THEN parseDateFromText(params.date, TRUE, dateNow).value
                  ELSE dateNow
      t == SplitTime(params[timeKey])
  IN  IF Truthy(params, timeKey) /\ t.valid THEN setHours(baseDate, t.h, t.m)
      ELSE baseDate

\* executeCalendarAction: the code of the service function up to its first
\* await, or to its return when it makes no backend call
Start(r, cmd) ==
  /\ req[r].pc \in {"idle", "done"}
  /\ LET prm == cmd.parameters
         rq0 == [R0 EXCEPT !.action = cmd.action, !.params = prm]
         fn  == executeCalendarAction(cmd)
     IN
     CASE fn = "createEvent" ->
            LET startDateTime == prepareDateTime(prm, "startTime", now)
                endDateTime   == IF Truthy(prm, "endTime")
                                 THEN prepareDateTime(prm, "endTime", now)
                                 ELSE startDateTime + Hour
            IN  /\ req' = [req EXCEPT ![r] = [rq0 EXCEPT !.pc = "create_list",
                              !.start = startDateTime, !.end = endDateTime]]
                /\ UNCHANGED ctx
       [] fn = "updateEvent" ->
            LET fromCtx == getLastEventIdFromContext(ctx, now)
                read    == ~Truthy(prm, "eventId")
                eventId == IF read THEN fromCtx ELSE prm.eventId
                rq1 == [rq0 EXCEPT !.eventId = eventId, !.ctxRead = read,
                                   !.ctxAtRead = IF read THEN ctx ELSE NoContext,
                                   !.readAt = IF read THEN now ELSE 0,
                                   !.ctxId = IF read THEN fromCtx ELSE ""]
            IN  /\ UNCHANGED ctx
                /\ IF eventId = "" /\ Truthy(prm, "title")
                   THEN req' = [req EXCEPT ![r] = [rq1 EXCEPT !.pc = "upd_search"]]
                   ELSE IF eventId = ""
                   THEN Finish(r, [rq1 EXCEPT !.unresolved = TRUE],
                               Failure("Impossibile aggiornare l'evento: ID evento non specificato"))
                   ELSE req' = [req EXCEPT ![r] = [rq1 EXCEPT !.pc = "upd_get"]]
       [] fn = "listEvents" ->
            /\ req' = [req EXCEPT ![r] = [rq0 EXCEPT !.pc = "view_list"]]
            /\ UNCHANGED ctx
       [] fn = "deleteEvent" ->
            /\ UNCHANGED ctx
            /\ IF IsBatchDelete(prm)
               THEN IF parseDateFromText(prm.date, "date" \in prm.keys, now).threw
                    THEN Finish(r, rq0,
                                Failure("Impossibile eliminare l'evento: TypeError"))
                    ELSE req' = [req EXCEPT ![r] = [rq0 EXCEPT !.pc = "del_list"]]
               ELSE IF Truthy(prm, "eventId")
               THEN req' = [req EXCEPT ![r] = [rq0 EXCEPT !.pc = "del_one",
                                                           !.eventId = prm.eventId]]
               ELSE IF Truthy(prm, "title")
               THEN req' = [req EXCEPT ![r] = [rq0 EXCEPT !.pc = "del_search"]]
               ELSE Finish(r, [rq0 EXCEPT !.unresolved = TRUE],
                           Failure("Impossibile eliminare l'evento: ID evento non specificato"))
       [] OTHER ->
            /\ UNCHANGED ctx
            /\ Finish(r, rq0, Refused("Azione non supportata"))
  /\ issued < MaxIssued
  /\ issued' = issued + 1
  /\ UNCHANGED <<events, now, failures, pipeVars, updVars, funVars>>

\* A backend call fails for a reason of its own (network, quota, 5xx)
Inject(fail) ==
  /\ fail => failures < MaxFailures
  /\ failures' = IF fail THEN failures + 1 ELSE failures

\* prepareAttendees
prepareAttendees(attendees) ==
  [i \in 1..Len(attendees) |->
     IF includes(attendees[i], <<"@">>) THEN attendees[i]
     ELSE attendees[i] \o <<"@", "example.com">>]

\* The duplicate test with length > 1 in place of length > 0
DuplicateFoundSeveral(items) == Len(items) > 1

\* existingEvents.data.items && existingEvents.data.items.length > 0
DuplicateFound(items) == Len(items) > 0

\* createEvent after the duplicate search
CreateList(r, fail) ==
  /\ req[r].pc = "create_list"
  /\ Inject(fail)
  /\ UNCHANGED ctx
  /\ LET rq == req[r]
         items == SelectSeq(ListEvents(events, rq.start, rq.start + 5),
                            LAMBDA id : QueryMatches(events[id].summary, rq.params.title))
     IN  IF fail
         THEN Finish(r, [rq EXCEPT !.backendFailed = TRUE],
                     Failure("Impossibile creare l'evento: list"))
         ELSE IF DuplicateFound(items)
         THEN Finish(r, [rq EXCEPT !.items = items],
                [Refused("Sembra che esista già un evento simile in questo orario")
                   EXCEPT !.potentialDuplicate = TRUE, !.eventId = items[1]])
         ELSE req' = [req EXCEPT ![r] = [rq EXCEPT !.pc = "create_insert",
                                                   !.items = items]]
  /\ UNCHANGED <<events, now, issued, pipeVars, updVars, funVars>>

\* Ids the backend has not handed out yet
FreshIds == {id \in EventIds : ~events[id].live /\ events[id].summary = <<>>}

\* createEvent after calendar.events.insert
CreateInsert(r, fail) ==
  /\ req[r].pc = "create_insert"
  /\ Inject(fail)
  /\ UNCHANGED ctx
  /\ LET rq == req[r]
     IN  IF fail
         THEN /\ Finish(r, [rq EXCEPT !.backendFailed = TRUE],
                        Failure("Impossibile creare l'evento: insert"))
              /\ UNCHANGED events
         ELSE /\ FreshIds # {}
              /\ LET id == CHOOSE a \in FreshIds :
                             \A b \in FreshIds : IdRank(a) <= IdRank(b)
                     ev == [live |-> TRUE,
                            summary |-> IF Truthy(rq.params, "title") THEN rq.params.title
                                        ELSE <<"Nuovo", Space, "evento">>,
                            start |-> rq.start, end |-> rq.end,
                            attendees |-> prepareAttendees(rq.params.attendees)]
                 IN  /\ events' = [events EXCEPT ![id] = ev]
                     /\ Finish(r, [rq EXCEPT !.updated = ev],
                               Success("Evento creato con successo", id, 0))
  /\ UNCHANGED <<now, issued, pipeVars, updVars, funVars>>

\* updateEvent after the list call of findEventByTitle
UpdSearch(r, fail) ==
  /\ req[r].pc = "upd_search"
  /\ Inject(fail)
  /\ UNCHANGED ctx
  /\ LET rq    == req[r]
         title == rq.params.title
         items == Take(ListEvents(events, now - 14 * Day, now + 30 * Day), 50)
         found == IF fail THEN [found |-> FALSE, id |-> ""]
                  ELSE findEventByTitle(events, items, title, now)
         rq1   == [rq EXCEPT !.backendFailed = @ \/ fail]
     IN  IF found.found
         THEN req' = [req EXCEPT ![r] = [rq1 EXCEPT !.eventId = found.id, !.pc = "upd_get"]]
         ELSE IF \/ includes(title, <<"riunione">>)
                 \/ includes(toLowerCase(title), <<"meeting">>)
         THEN req' = [req EXCEPT ![r] = [rq1 EXCEPT !.pc = "upd_fallback"]]
         ELSE Finish(r, [rq1 EXCEPT !.unresolved = ~fail],
                     Failure("Impossibile aggiornare l'evento: non trovato"))
  /\ UNCHANGED <<events, now, issued, pipeVars, updVars, funVars>>

\* updateEvent after the list call of findMostRecentEventByType
UpdFallback(r, fail) ==
  /\ req[r].pc = "upd_fallback"
  /\ Inject(fail)
  /\ UNCHANGED ctx
  /\ LET rq    == req[r]
         items == Take(ListEvents(events, now - 3 * Day, now + 3 * Day), 10)
         found == IF fail THEN [found |-> FALSE, id |-> ""]
                  ELSE findMostRecentEventByType(events, items, <<"riunione">>, now)
         rq1   == [rq EXCEPT !.backendFailed = @ \/ fail]
     IN  IF found.found
         THEN req' = [req EXCEPT ![r] = [rq1 EXCEPT !.eventId = found.id, !.pc = "upd_get"]]
         ELSE Finish(r, [rq1 EXCEPT !.unresolved = ~fail],
                     Failure("Impossibile trovare l'evento da modificare"))
  /\ UNCHANGED <<events, now, issued, pipeVars, updVars, funVars>>

\* The attendees of updatedEvent (lines 449-470)
UpdatedAttendees(params, existing) ==
  IF "attendees" \in params.keys /\ Len(params.attendees) > 0
  THEN IF params.attendeesAction = "ADD"
       THEN existing.attendees \o
            prepareAttendees(SelectSeq(params.attendees,
               LAMBDA a : \A i \in 1..Len(existing.attendees) : existing.attendees[i] # a))
       ELSE prepareAttendees(params.attendees)
  ELSE existing.attendees

\* updateEvent after calendar.events.get: builds updatedEvent
UpdGet(r, fail) ==
  /\ req[r].pc = "upd_get"
  /\ Inject(fail)
  /\ UNCHANGED ctx
  /\ LET rq == req[r]
         existing == events[rq.eventId]
         t == UpdatedTimes(rq.params, existing.start, existing.end, now)
         updatedEvent ==
           [live |-> TRUE,
            summary |-> IF Truthy(rq.params, "title") THEN rq.params.title
                        ELSE existing.summary,
            start |-> t.start, end |-> t.end,
            attendees |-> UpdatedAttendees(rq.params, existing)]
     IN  IF fail \/ ~existing.live
         THEN Finish(r, [rq EXCEPT !.backendFailed = TRUE],
                     Failure("Impossibile aggiornare l'evento: get"))
         ELSE IF UpdatedTimesThrow(rq.params)
         THEN Finish(r, [rq EXCEPT !.original = existing],
                     Failure("Impossibile aggiornare l'evento: Invalid time value"))
         ELSE req' = [req EXCEPT ![r] = [rq EXCEPT !.pc = "upd_put",
                         !.original = existing, !.updated = updatedEvent]]
  /\ UNCHANGED <<events, now, issued, pipeVars, updVars, funVars>>

\* updateEvent after calendar.events.update
UpdPut(r, fail) ==
  /\ req[r].pc = "upd_put"
  /\ Inject(fail)
  /\ LET rq == req[r]
     IN  IF fail \/ ~events[rq.eventId].live
         THEN /\ UNCHANGED <<events, ctx>>
              /\ Finish(r, [rq EXCEPT !.backendFailed = TRUE],
                        Failure("Impossibile aggiornare l'evento: update"))
         ELSE /\ events' = [events EXCEPT ![rq.eventId] = rq.updated]
              /\ ctx' = updateEventContext(ctx, rq.eventId, rq.updated.summary, now)
              /\ Finish(r, rq, Success("Evento aggiornato con successo", rq.eventId, 0))
  /\ UNCHANGED <<now, issued, pipeVars, updVars, funVars>>

\* listEvents after calendar.events.list
ViewList(r, fail) ==
  /\ req[r].pc = "view_list"
  /\ Inject(fail)
  /\ UNCHANGED ctx
  /\ LET rq  == req[r]
         day == parseDateFromText(rq.params.date, TRUE, now).value
         timeMin == IF Truthy(rq.params, "date") THEN Midnight(day) ELSE now
         timeMax == IF Truthy(rq.params, "date") THEN Midnight(day) + Day ELSE now + 7 * Day
         limit == IF Truthy(rq.params, "maxResults") THEN rq.params.maxResults ELSE 10
         all   == SelectSeq(ListEvents(events, timeMin, timeMax),
                            LAMBDA id : QueryMatches(events[id].summary, rq.params.query))
         items == Take(all, limit)
     IN  IF fail
         THEN Finish(r, [rq EXCEPT !.backendFailed = TRUE],
                     Failure("Impossibile recuperare gli eventi: list"))
         ELSE IF items = <<>>
         THEN Finish(r, rq, Success("Nessun evento trovato nel periodo specificato", "", 0))
         ELSE Finish(r, [rq EXCEPT !.items = items],
                     Success("Trovati eventi", "", Len(items)))
  /\ UNCHANGED <<events, now, issued, pipeVars, updVars, funVars>>

\* deleteEvent, batch branch, after calendar.events.list
DelList(r, fail) ==
  /\ req[r].pc = "del_list"
  /\ Inject(fail)
  /\ UNCHANGED ctx
  /\ LET rq  == req[r]
         day == parseDateFromText(rq.params.date, TRUE, now).value
         items == ListEvents(events, Midnight(day), Midnight(day) + Day)
     IN  IF fail
         THEN Finish(r, [rq EXCEPT !.backendFailed = TRUE],
                     Failure("Impossibile eliminare l'evento: list"))
         ELSE IF items = <<>>
         THEN Finish(r, rq, Success("Nessun evento trovato per la data specificata", "", 0))
         ELSE req' = [req EXCEPT ![r] = [rq EXCEPT !.pc = "del_loop", !.items = items,
                                                   !.listed = items, !.idx = 1]]
  /\ UNCHANGED <<events, now, issued, pipeVars, updVars, funVars>>

\* deleteEvent, batch branch: one turn of the loop of lines 600-605, after
\* calendar.events.delete
DelLoop(r, fail) ==
  /\ req[r].pc = "del_loop"
  /\ Inject(fail)
  /\ UNCHANGED ctx
  /\ LET rq == req[r]
         id == rq.items[rq.idx]
         rq1 == [rq EXCEPT !.attempted = Append(@, id)]
     IN  IF fail \/ ~events[id].live
         THEN /\ UNCHANGED events
              /\ Finish(r, [rq1 EXCEPT !.backendFailed = TRUE],
                        Failure("Impossibile eliminare l'evento: delete"))
         ELSE /\ events' = [events EXCEPT ![id].live = FALSE]
              /\ LET rq2 == [rq1 EXCEPT !.deleted = Append(@, id)]
                 IN  IF rq.idx = Len(rq.items)
                     THEN Finish(r, rq2, Success("Eliminati eventi per la data specificata",
                                                 "", Len(rq.items)))
                     ELSE req' = [req EXCEPT ![r] = [rq2 EXCEPT !.idx = rq.idx + 1]]
  /\ UNCHANGED <<now, issued, pipeVars, updVars, funVars>>

\* deleteEvent, single branch, after the list call of findEventByTitle
DelSearch(r, fail) ==
  /\ req[r].pc = "del_search"
  /\ Inject(fail)
  /\ UNCHANGED ctx
  /\ LET rq    == req[r]
         items == Take(ListEvents(events, now - 14 * Day, now + 30 * Day), 50)
         found == IF fail THEN [found |-> FALSE, id |-> ""]
                  ELSE findEventByTitle(events, items, rq.params.title, now)
     IN  IF found.found
         THEN req' = [req EXCEPT ![r] = [rq EXCEPT !.eventId = found.id, !.pc = "del_one"]]
         ELSE Finish(r, [rq EXCEPT !.backendFailed = fail, !.unresolved = ~fail],
                     Failure("Impossibile eliminare l'evento: non trovato"))
  /\ UNCHANGED <<events, now, issued, pipeVars, updVars, funVars>>

\* deleteEvent, single branch, after calendar.events.delete
DelOne(r, fail) ==
  /\ req[r].pc = "del_one"
  /\ Inject(fail)
  /\ UNCHANGED ctx
  /\ LET rq == req[r]
         rq1 == [rq EXCEPT !.attempted = <<rq.eventId>>]
     IN  IF fail \/ ~events[rq.eventId].live
         THEN /\ UNCHANGED events
              /\ Finish(r, [rq1 EXCEPT !.backendFailed = TRUE],
                        Failure("Impossibile eliminare l'evento: delete"))
         ELSE /\ events' = [events EXCEPT ![rq.eventId].live = FALSE]
              /\ Finish(r, [rq1 EXCEPT !.deleted = <<rq.eventId>>],
                        Success("Evento eliminato con successo", "", 0))
  /\ UNCHANGED <<now, issued, pipeVars, updVars, funVars>>

\* Time passes
Tick(d) ==
  /\ now + d <= 10 * Hour + MaxElapsed
  /\ now' = now + d
  /\ UNCHANGED <<events, ctx, req, issued, failures, pipeVars, updVars, funVars>>

\* The calendar at the start: two events of today
InitialEvents ==
  [id \in EventIds |->
     CASE id = "e1" -> [live |-> TRUE,
                        summary |-> <<"Riunione", Space, "con", Space, "Mario">>,
                        start |-> 15 * Hour, end |-> 16 * Hour,
                        attendees |-> << <<"mario", "@", "example.com">> >>]
       [] id = "e2" -> [live |-> TRUE, summary |-> <<"Dentista">>,
                        start |-> 9 * Hour, end |-> 9 * Hour + 30,
                        attendees |-> <<>>]
       [] OTHER -> NoEvent]

----------------------------------------------------------------------------
(* The commands executed against the calendar                              *)

Act(action, parameters) == [action |-> action, parameters |-> parameters]

RiunioneConMario == <<"Riunione", Space, "con", Space, "Mario">>

CalCommands ==
  { Act(CREATE_EVENT, Set(Set(Set(P0, "title", <<"Pranzo">>), "date", <<"oggi">>),
                          "startTime", <<"15", ":", "30">>)),
    Act(CREATE_EVENT, Set(Set(Set(P0, "title", RiunioneConMario), "date", <<"oggi">>),
                          "startTime", <<"15", ":", "00">>)),
    Act(UPDATE_EVENT, Set(Set(P0, "title", RiunioneConMario), "timeModification",
                          Shift("FORWARD", 1, "HOUR"))),
    Act(UPDATE_EVENT, Set(P0, "timeModification", Shift("BACKWARD", 30, "MINUTE"))),
    Act(UPDATE_EVENT, Set(Set(P0, "title", <<"riunione">>), "startTime", <<"16", ":", "00">>)),
    Act(UPDATE_EVENT, Set(Set(P0, "title", <<"pranzo">>), "date", <<"domani">>)),
    Act(UPDATE_EVENT, Set(Set(P0, "eventId", "e2"), "title", <<"Dentista", Space, "Luca">>)),
    Act(DELETE_EVENT, Set(P0, "deleteAll", TRUE)),
    Act(DELETE_EVENT, Set(Set(P0, "deleteAll", TRUE), "date", <<"oggi">>)),
    Act(DELETE_EVENT, Set(P0, "date", <<"domani">>)),
    Act(DELETE_EVENT, Set(P0, "title", RiunioneConMario)),
    Act(DELETE_EVENT, Set(P0, "eventId", "e2")),
    Act(DELETE_EVENT, P0),
    Act(VIEW_EVENTS, Set(P0, "maxResults", 10)),
    Act(VIEW_EVENTS, Set(Set(P0, "date", <<"domani">>), "maxResults", 10)),
    Act(<<"REMOVE", "_", "EVENT">>, Set(P0, "title", <<"riunione">>)) }

\* The commands of two sessions whose requests overlap
ConcCommands ==
  { Act(UPDATE_EVENT, Set(Set(P0, "eventId", "e2"), "title", <<"Dentista", Space, "Luca">>)),
    Act(UPDATE_EVENT, Set(Set(P0, "title", RiunioneConMario), "timeModification",
                          Shift("FORWARD", 1, "HOUR"))),
    Act(UPDATE_EVENT, Set(Set(P0, "title", <<"riunione">>), "startTime", <<"16", ":", "00">>)),
    Act(DELETE_EVENT, Set(P0, "eventId", "e2")) }

----------------------------------------------------------------------------
(* updateEvent's start and end as a function of the event and the params   *)

UpdEvents == { [start |-> 15 * Hour, end |-> 16 * Hour],
               [start |-> 9 * Hour + 30, end |-> 11 * Hour],
               [start |-> 23 * Hour, end |-> Day + Hour] }

\* p with key k set to each value of vs, or left without k
Opt(ps, k, vs) == ps \cup { Set(p, k, v) : p \in ps, v \in vs }

UpdParams ==
  Opt(Opt(Opt(Opt(Opt({P0},
    "timeModification", {Shift("FORWARD", 1, "HOUR"), Shift("BACKWARD", 2, "HOUR"),
                         Shift("FORWARD", 30, "MINUTE"), Shift("BACKWARD", 15, "MINUTE")}),
    "hoursToShift", {0, 2, -1}),
    "startTime", {<<"16", ":", "00">>, <<"5", ":", "30">>}),
    "endTime", {<<"16", ":", "30">>, <<"3", ":", "00">>}),
    "date", {<<"oggi">>, <<"domani">>})

\* updateEvent from the event fetched to the resource sent to the backend
ComputeUpdate ==
  /\ ~uOut.done
  /\ LET t == UpdatedTimes(uIn.params, uIn.start, uIn.end, now)
     IN  uOut' = [done |-> TRUE, start |-> t.start, end |-> t.end]
  /\ UNCHANGED <<uIn, pipeVars, calVars, funVars>>

----------------------------------------------------------------------------
(* The service's functions applied to arguments drawn at the start         *)

FindSummaries == {<<"Riunione">>, RiunioneConMario, <<"Dentista">>}

\* What one slot of the calendar may hold: nothing, or an event of today or
\* of five days from now, starting at minute m of its day
FindSlot(m) ==
  {NoEvent} \cup
  { [live |-> TRUE, summary |-> t, start |-> d * Day + m, end |-> d * Day + m + Hour,
     attendees |-> <<>>] : t \in FindSummaries, d \in {0, 5} }

FindCalendars ==
  { [id \in EventIds |-> CASE id = "e1" -> a [] id = "e2" -> b [] OTHER -> c] :
      a \in FindSlot(15 * Hour), b \in FindSlot(9 * Hour),
      c \in {NoEvent, [live |-> TRUE, summary |-> <<"Riunione">>,
                       start |-> 11 * Hour, end |-> 12 * Hour, attendees |-> <<>>]} }

FindTitles == {<<"Riunione">>, <<"riunione", Space, "con", Space, "mario">>,
               <<"Dentista">>, <<"Pranzo">>}

FindInputs ==
  { [fn |-> "findEventByTitle", evs |-> c, title |-> t] :
      c \in FindCalendars, t \in FindTitles }

\* findEventByTitle from its list call to its return or throw
CallFindEventByTitle ==
  /\ fIn.fn = "findEventByTitle"
  /\ ~fOut.done
  /\ LET items == Take(ListEvents(fIn.evs, now - 14 * Day, now + 30 * Day), 50)
     IN  fOut' = [done |-> TRUE, items |-> items,
                  res |-> findEventByTitle(fIn.evs, items, fIn.title, now)]
  /\ UNCHANGED <<fIn, pipeVars, calVars, updVars>>

\* Addresses and bare names a command may give as attendees
AttendeeNames == {<<"mario">>, <<"luca">>, <<"mario", "@", "example.com">>,
                  <<"anna", "@", "example.com">>}

AttendeeInputs ==
  { [fn |-> "updateEvent.attendees", existing |-> [NoEvent EXCEPT !.attendees = e],
     params |-> p] :
      e \in { <<>>, << <<"mario", "@", "example.com">> >>,
              << <<"mario", "@", "example.com">>, <<"luca", "@", "example.com">> >> },
      p \in { Set(q, "attendeesAction", a) :
                q \in Opt({P0}, "attendees",
                          {<<>>} \cup {<<x>> : x \in AttendeeNames}
                                \cup {<<x, y>> : x \in AttendeeNames, y \in AttendeeNames}),
                a \in {"ADD", "REPLACE"} } }

\* updateEvent from the event fetched to the attendees of the resource sent
CallUpdatedAttendees ==
  /\ fIn.fn = "updateEvent.attendees"
  /\ ~fOut.done
  /\ fOut' = [done |-> TRUE, attendees |-> UpdatedAttendees(fIn.params, fIn.existing)]
  /\ UNCHANGED <<fIn, pipeVars, calVars, updVars>>

\* parseCommandLocally called with a value of a JSON body: toLowerCase is
\* called on it before the try block is entered, and is not a function of a
\* value that is not a string. Result: [threw, val]
parseCommandLocallyCall(isString, command) ==
  IF isString THEN [threw |-> FALSE, val |-> parseCommandLocally(command)]
  ELSE [threw |-> TRUE, val |-> NoAction]

\* The verbs the local parser classifies by
LocalVerbs == {"crea", "mostra", "modifica", "sposta", "anticipa", "posticipa", "elimina"}

\* The commands of the route, commands with two verbs, and the number 42
LocalInputs ==
  { [fn |-> "parseCommandLocally", isString |-> TRUE, command |-> c] :
      c \in Commands \cup
            { <<v, Space, "e", Space, w, Space, "la", Space, "riunione">> :
                v \in LocalVerbs, w \in LocalVerbs } \cup
            { <<"crea", Space, "un", Space, "evento", Space, "ed", Space,
                "elimina", Space, "tutto">> } } \cup
  { [fn |-> "parseCommandLocally", isString |-> FALSE, command |-> <<"42">>] }

\* One call of parseCommandLocally
CallParseCommandLocally ==
  /\ fIn.fn = "parseCommandLocally"
  /\ ~fOut.done
  /\ fOut' = [done |-> TRUE, res |-> parseCommandLocallyCall(fIn.isString, fIn.command)]
  /\ UNCHANGED <<fIn, pipeVars, calVars, updVars>>

\* "prossimo" or "prossima" and a weekday, resolved at three times of each
\* day of a week
DateInputs ==
  { [fn |-> "parseDateFromText",
     dateText |-> <<p, Space, dayMapping[i][1]>>, baseDate |-> d * Day + m] :
      p \in {"prossimo", "prossima"}, i \in 1..Len(dayMapping),
      d \in 0..6, m \in {0, 10 * Hour, 23 * Hour + 59} }

\* One call of parseDateFromText
CallParseDateFromText ==
  /\ fIn.fn = "parseDateFromText"
  /\ ~fOut.done
  /\ fOut' = [done |-> TRUE, res |-> parseDateFromText(fIn.dateText, TRUE, fIn.baseDate)]
  /\ UNCHANGED <<fIn, pipeVars, calVars, updVars>>

\* Parsed LLM objects: the nested form with a canonical action and any
\* subset of seven parameters, and the flat Italian form of a view; each
\* with one of four command texts
NormInputs ==
  { [fn |-> "normalizeResponse", parsedResult |-> j, originalCommand |-> c] :
      j \in { Nested(a, q) :
                a \in CanonicalActions,
                q \in Opt(Opt(Opt(Opt(Opt(Opt(Opt({P0},
                       "title", {<<"riunione">>}),
                       "startTime", {<<"15", ":", "00">>}),
                       "timeModification", {Shift("BACKWARD", 30, "MINUTE")}),
                       "eventId", {"e1"}),
                       "maxResults", {5}),
                       "deleteAll", {TRUE}),
                       "attendeesAction", {"ADD"}) } \cup
             { Flat(<<"visualizza", "_", "eventi">>, t) :
                t \in Opt({Set(P0, "data", <<"oggi">>)}, "maxResults", {5}) },
      c \in { <<"ciao">>,
              <<"Sposta", Space, "la", Space, "riunione", Space, "di", Space, "domani",
                Space, "alle", Space, "16">>,
              <<"Posticipa", Space, "la", Space, "riunione", Space, "con", Space, "Mario",
                Space, "di", Space, "due", Space, "ore">>,
              <<"anticipa", Space, "la", Space, "riunione", Space, "di", Space, "30",
                Space, "minuti">> } }

\* One call of normalizeResponse
CallNormalizeResponse ==
  /\ fIn.fn = "normalizeResponse"
  /\ ~fOut.done
  /\ fOut' = [done |-> TRUE, res |-> normalizeResponse(fIn.parsedResult, fIn.originalCommand)]
  /\ UNCHANGED <<fIn, pipeVars, calVars, updVars>>

\* Commands made of a verb, "la riunione" and a tail with or without an
\* hour count and an "alle HH[:MM]"
TimeModInputs ==
  { [fn |-> "extractTimeModification",
     command |-> <<v, Space, "la", Space, "riunione">> \o t] :
      v \in {"Sposta", "sposta", "Posticipa", "anticipa", "ritarda", "fissa"},
      t \in { <<>>,
              <<Space, "alle", Space, "16">>,
              <<Space, "alle", Space, "16", ":", "30">>,
              <<Space, "alle", Space, "9", ".", "05">>,
              <<Space, "di", Space, "domani", Space, "alle", Space, "16">>,
              <<Space, "di", Space, "2", Space, "ore">>,
              <<Space, "di", Space, "2", Space, "ore", Space, "alle", Space, "9">>,
              <<Space, "di", Space, "30", Space, "minuti">>,
              <<Space, "un", Space, "ora", Space, "prima", Space, "alle", Space, "9">>,
              <<Space, "di", Space, "3", Space, "ore", Space, "in", Space, "avanti">> } }

\* One call of extractTimeModification
CallExtractTimeModification ==
  /\ fIn.fn = "extractTimeModification"
  /\ ~fOut.done
  /\ fOut' = [done |-> TRUE, res |-> extractTimeModification(fIn.command)]
  /\ UNCHANGED <<fIn, pipeVars, calVars, updVars>>

\* Every argument list drawn at the start
FunInputs ==
  FindInputs \cup AttendeeInputs \cup LocalInputs \cup DateInputs \cup NormInputs
    \cup TimeModInputs

----------------------------------------------------------------------------
(* Specifications                                                          *)

\* The interpretation pipeline of the route
PipeNext ==
  \/ \E command \in Commands : Receive(command)
  \/ \E reply \in LlmReplies : LlmDone(reply)
  \/ \E threw \in BOOLEAN : ExecDone(threw)
  \/ NextRequest

\* The server started: no request yet, the calendar as first found
PipeInit ==
  /\ pPc = "idle"
  /\ pCmd = <<>>
  /\ pMeta = M0
  /\ pEnriched = <<>>
  /\ pLlmCalls = 0
  /\ pReply = NoReply
  /\ pInterp = NoInterp
  /\ pParsed = NoAction
  /\ pDispatch = "none"
  /\ pResponse = "none"
  /\ events = InitialEvents
  /\ ctx = NoContext
  /\ now = 10 * Hour
  /\ req = [r \in Requests |-> R0]
  /\ issued = 0
  /\ failures = 0
  /\ uIn = [start |-> 0, end |-> 0, params |-> P0]
  /\ uOut = [done |-> FALSE, start |-> 0, end |-> 0]
  /\ fIn = [fn |-> "none"]
  /\ fOut = [done |-> FALSE]

SpecPipe == PipeInit /\ [][PipeNext]_vars

\* The calendar service, one command after the other
Next ==
  \/ \E cmd \in CalCommands : Start("r1", cmd)
  \/ \E fail \in BOOLEAN : CreateList("r1", fail)
  \/ \E fail \in BOOLEAN : CreateInsert("r1", fail)
  \/ \E fail \in BOOLEAN : UpdSearch("r1", fail)
  \/ \E fail \in BOOLEAN : UpdFallback("r1", fail)
  \/ \E fail \in BOOLEAN : UpdGet("r1", fail)
  \/ \E fail \in BOOLEAN : UpdPut("r1", fail)
  \/ \E fail \in BOOLEAN : ViewList("r1", fail)
  \/ \E fail \in BOOLEAN : DelList("r1", fail)
  \/ \E fail \in BOOLEAN : DelLoop("r1", fail)
  \/ \E fail \in BOOLEAN : DelSearch("r1", fail)
  \/ \E fail \in BOOLEAN : DelOne("r1", fail)
  \/ \E d \in {1, 4} : Tick(d)

Init ==
  /\ pPc = "idle"
  /\ pCmd = <<>>
  /\ pMeta = M0
  /\ pEnriched = <<>>
  /\ pLlmCalls = 0
  /\ pReply = NoReply
  /\ pInterp = NoInterp
  /\ pParsed = NoAction
  /\ pDispatch = "none"
  /\ pResponse = "none"
  /\ events = InitialEvents
  /\ ctx = NoContext
  /\ now = 10 * Hour
  /\ req = [r \in Requests |-> R0]
  /\ issued = 0
  /\ failures = 0
  /\ uIn = [start |-> 0, end |-> 0, params |-> P0]
  /\ uOut = [done |-> FALSE, start |-> 0, end |-> 0]
  /\ fIn = [fn |-> "none"]
  /\ fOut = [done |-> FALSE]

Spec == Init /\ [][Next]_vars

\* The calendar service with the commands of two sessions in flight: the
\* steps of the two requests interleave at their awaits
ConcNext ==
  \/ \E r \in Requests, cmd \in ConcCommands : Start(r, cmd)
  \/ \E r \in Requests, fail \in BOOLEAN : UpdSearch(r, fail)
  \/ \E r \in Requests, fail \in BOOLEAN : UpdFallback(r, fail)
  \/ \E r \in Requests, fail \in BOOLEAN : UpdGet(r, fail)
  \/ \E r \in Requests, fail \in BOOLEAN : UpdPut(r, fail)
  \/ \E r \in Requests, fail \in BOOLEAN : DelOne(r, fail)
  \/ Tick(4)

ConcInit ==
  /\ pPc = "idle"
  /\ pCmd = <<>>
  /\ pMeta = M0
  /\ pEnriched = <<>>
  /\ pLlmCalls = 0
  /\ pReply = NoReply
  /\ pInterp = NoInterp
  /\ pParsed = NoAction
  /\ pDispatch = "none"
  /\ pResponse = "none"
  /\ events = InitialEvents
  /\ ctx = NoContext
  /\ now = 10 * Hour
  /\ req = [r \in Requests |-> R0]
  /\ issued = 0
  /\ failures = 0
  /\ uIn = [start |-> 0, end |-> 0, params |-> P0]
  /\ uOut = [done |-> FALSE, start |-> 0, end |-> 0]
  /\ fIn = [fn |-> "none"]
  /\ fOut = [done |-> FALSE]

SpecConc == ConcInit /\ [][ConcNext]_vars

\* One call of one function of the service
FunNext ==
  \/ CallFindEventByTitle
  \/ CallUpdatedAttendees
  \/ CallParseCommandLocally
  \/ CallParseDateFromText
  \/ CallNormalizeResponse
  \/ CallExtractTimeModification

FunInit ==
  /\ pPc = "idle"
  /\ pCmd = <<>>
  /\ pMeta = M0
  /\ pEnriched = <<>>
  /\ pLlmCalls = 0
  /\ pReply = NoReply
  /\ pInterp = NoInterp
  /\ pParsed = NoAction
  /\ pDispatch = "none"
  /\ pResponse = "none"
  /\ events = InitialEvents
  /\ ctx = NoContext
  /\ now = 10 * Hour
  /\ req = [r \in Requests |-> R0]
  /\ issued = 0
  /\ failures = 0
  /\ uIn = [start |-> 0, end |-> 0, params |-> P0]
  /\ uOut = [done |-> FALSE, start |-> 0, end |-> 0]
  /\ fIn \in FunInputs
  /\ fOut = [done |-> FALSE]

SpecFun == FunInit /\ [][FunNext]_vars

\* updateEvent's time computation over its inputs
UpdNext == ComputeUpdate

\* One existing event and one params object, any of the enumerated ones
UpdInit ==
  /\ pPc = "idle"
  /\ pCmd = <<>>
  /\ pMeta = M0
  /\ pEnriched = <<>>
  /\ pLlmCalls = 0
  /\ pReply = NoReply
  /\ pInterp = NoInterp
  /\ pParsed = NoAction
  /\ pDispatch = "none"
  /\ pResponse = "none"
  /\ events = InitialEvents
  /\ ctx = NoContext
  /\ now = 10 * Hour
  /\ req = [r \in Requests |-> R0]
  /\ issued = 0
  /\ failures = 0
  /\ uIn \in { [start |-> e.start, end |-> e.end, params |-> p] :
                 e \in UpdEvents, p \in UpdParams }
  /\ uOut = [done |-> FALSE, start |-> 0, end |-> 0]
  /\ fIn = [fn |-> "none"]
  /\ fOut = [done |-> FALSE]

SpecUpd == UpdInit /\ [][UpdNext]_vars

----------------------------------------------------------------------------
(* Properties of the interpretation pipeline, checked under SpecPipe       *)

\* C1: processCommand never lets an error out; when the LLM call fails,
\* times out, answers without data or candidates, or answers with a text
\* that parseGeminiResponse / normalizeResponse rejects, it returns exactly
\* parseCommandLocally of the command it was given.  The rejected texts are
\* those without braces, with the braces in the wrong order, with a body
\* JSON.parse rejects, and with an object that has neither action nor azione.
C1_FallbackOnLlmFailure ==
  LET RejectedTexts ==
        { <<"prose">>, <<"}", "B_view", "{">>, <<"{", "B_garbage", "}">>,
          <<"{", "B_no_action", "}">> }
  IN
  pReply.kind # "none" =>
    /\ ~pInterp.threw
    /\ (pReply.kind # "text" \/ pReply.text \in RejectedTexts) =>
         /\ pInterp.val = parseCommandLocally(pEnriched)
         /\ pInterp.val.action \in CanonicalActions
         /\ pResponse \notin {"error400"}

\* C1 witness: the LLM call timed out on the command that creates a meeting,
\* and the local parser's CREATE_EVENT went on to the executor
C1_Witness ==
  /\ pReply.kind = "timeout"
  /\ pCmd[1] = "Crea"
  /\ pInterp.fallback
  /\ pInterp.val = parseCommandLocally(pEnriched)
  /\ pInterp.val.action = CREATE_EVENT
  /\ pDispatch = "createEvent"

\* C2 as stated: the action handed to the Action Executor is always one of
\* the four canonical actions; no unrecognized label is passed through.
C2_ActionAlwaysCanonical ==
  pPc = "executing" => pParsed.action \in CanonicalActions

----------------------------------------------------------------------------
(* Properties of the calendar service, checked under Spec                  *)

\* C4 as stated: a DELETE_EVENT with deleteAll = true, or with a date and
\* neither eventId nor title, whose backend calls all succeed, deletes every
\* event listed in the day window and returns success with their count,
\* whether or not a date comes with deleteAll.
C4_BatchDeleteDeletesWindow ==
  \A r \in Requests :
    LET rq == req[r]
        batch == \/ Truthy(rq.params, "deleteAll")
                 \/ /\ Truthy(rq.params, "date")
                    /\ ~Truthy(rq.params, "eventId")
                    /\ ~Truthy(rq.params, "title")
    IN  (rq.pc = "done" /\ rq.action = DELETE_EVENT /\ batch /\ ~rq.backendFailed)
          => /\ rq.result.status = "success"
             /\ rq.deleted = rq.listed
             /\ rq.result.count = Len(rq.listed)

\* C5 as stated: in a batch delete every event found in the window is
\* attempted even when the delete call of one of them fails, and the result
\* reports the number of events actually deleted.
C5_BatchContinuesPastFailure ==
  \A r \in Requests :
    LET rq == req[r]
    IN  (rq.pc = "done" /\ rq.listed # <<>>)
          => /\ rq.attempted = rq.listed
             /\ rq.result.status = "success"
             /\ rq.result.count = Len(rq.deleted)

\* C6 as stated: a command whose target could not be resolved, or one of
\* whose backend calls failed, ends in a failure carrying a message, never
\* in a success.
C6_FailureIsSurfaced ==
  \A r \in Requests :
    LET rq == req[r]
    IN  (rq.pc = "done" /\ (rq.backendFailed \/ rq.unresolved))
          => /\ rq.result.status = "failure"
             /\ rq.result.message # ""

\* C9: getLastEventIdFromContext returns the stored id exactly when an id is
\* stored and Date.now() - timestamp is under 5 minutes, and nothing
\* otherwise (at 5 minutes or more, or with nothing stored); the step that
\* reads the context leaves it as it was.
C9_ContextValidFiveMinutes ==
  /\ [](\A r \in Requests :
          LET rq == req[r]
              valid == /\ rq.ctxAtRead.set
                       /\ rq.ctxAtRead.id # ""
                       /\ rq.readAt - rq.ctxAtRead.timestamp < 5
          IN  rq.ctxRead => rq.ctxId = (IF valid THEN rq.ctxAtRead.id ELSE ""))
  /\ [][\A r \in Requests :
          (req'[r].ctxRead /\ req'[r] # req[r] /\ req[r].pc \in {"idle", "done"})
            => ctx' = ctx]_vars

\* C9 witness: a context stored exactly 5 minutes before was read by an
\* update and gave no id
C9_Witness ==
  \E r \in Requests :
    /\ req[r].ctxRead
    /\ req[r].ctxAtRead.set
    /\ req[r].ctxAtRead.id = "e1"
    /\ req[r].readAt - req[r].ctxAtRead.timestamp = 5
    /\ req[r].ctxId = ""
    /\ ctx = req[r].ctxAtRead

\* C10 as stated: when a CREATE_EVENT or an UPDATE_EVENT has succeeded, the
\* context holds the id the backend returned, the final title of the event
\* and the time of the command as timestamp.
C10_ContextAfterCreateOrUpdate ==
  \A r \in Requests :
    LET rq == req[r]
    IN  (/\ rq.pc = "done"
         /\ rq.result.status = "success"
         /\ rq.action \in {CREATE_EVENT, UPDATE_EVENT})
          => rq.ctxAfter = [id |-> rq.result.eventId, title |-> rq.updated.summary,
                            timestamp |-> rq.doneAt, set |-> TRUE]

----------------------------------------------------------------------------
(* Properties of updateEvent's time computation, checked under SpecUpd     *)

\* C7 as stated: of several time parameters present, the one of highest
\* precedence in timeModification > hoursToShift > startTime/endTime > date
\* is the only one applied; with a startTime or an endTime present and no
\* shift, the times given are set and a date that is also present leaves the
\* day of the event alone.
C7_PrecedenceAsStated ==
  LET p == uIn.params
      tod(t) == NumVal(t[1]) * 60 + NumVal(t[3])
      level == IF "timeModification" \in p.keys THEN 1
               ELSE IF Truthy(p, "hoursToShift") THEN 2
               ELSE IF Truthy(p, "startTime") \/ Truthy(p, "endTime") THEN 3
               ELSE IF Truthy(p, "date") THEN 4
               ELSE 0
      several == Cardinality({k \in {"hoursToShift", "startTime", "endTime", "date"} :
                                Truthy(p, k)} \cup (p.keys \cap {"timeModification"})) > 1
  IN  (uOut.done /\ several) =>
        /\ level = 3 =>
             /\ (uOut.start - (uOut.start % (24 * 60))) = (uIn.start - (uIn.start % (24 * 60)))
             /\ Truthy(p, "startTime") => uOut.start % (24 * 60) = tod(p.startTime)
             /\ Truthy(p, "endTime") => uOut.end % (24 * 60) = tod(p.endTime)
        /\ level = 4 =>
             /\ uOut.start % (24 * 60) = uIn.start % (24 * 60)
             /\ uOut.end - uOut.start = uIn.end - uIn.start

\* C7, amended: the parameter applied is the first present (truthy) one of
\* timeModification, hoursToShift, startTime, date, and the parameters after
\* it have no effect on start and end; endTime is honoured only together
\* with startTime, and an endTime given without startTime is ignored.
C7_PrecedenceKeyedOnStartTime ==
  LET p == uIn.params
      tm == p.timeModification
      tod(t) == NumVal(t[1]) * 60 + NumVal(t[3])
      day(t) == t - (t % (24 * 60))
      offset == (IF tm.direction = "BACKWARD" THEN -1 ELSE 1) * tm.amount
                  * (IF tm.unit = "HOUR" THEN 60 ELSE 1)
      target == IF p.date = <<"domani">> THEN 24 * 60 ELSE 0
      level == IF "timeModification" \in p.keys THEN 1
               ELSE IF Truthy(p, "hoursToShift") THEN 2
               ELSE IF Truthy(p, "startTime") THEN 3
               ELSE IF Truthy(p, "date") THEN 4
               ELSE 0
  IN  uOut.done =>
        /\ level = 1 => /\ uOut.start = uIn.start + offset
                        /\ uOut.end = uIn.end + offset
        /\ level = 2 => /\ uOut.start = uIn.start + p.hoursToShift * 60
                        /\ uOut.end = uIn.end + p.hoursToShift * 60
        /\ level = 3 =>
             /\ uOut.start = day(uIn.start) + tod(p.startTime)
             /\ ~Truthy(p, "endTime") => uOut.end - uOut.start = uIn.end - uIn.start
             /\ Truthy(p, "endTime") =>
                  /\ uOut.end % (24 * 60) = tod(p.endTime)
                  /\ uOut.end > uOut.start
                  /\ uOut.end - uOut.start <= 24 * 60
        /\ level = 4 =>
             /\ uOut.start = target + (uIn.start % (24 * 60))
             /\ uOut.end - uOut.start = uIn.end - uIn.start
        /\ level = 0 => /\ uOut.start = uIn.start
                        /\ uOut.end = uIn.end

\* C7 witness: startTime, endTime and date all given and no shift; the event
\* of 9:30-11:00 is set to 16:00-16:30 of its own day, the date 'domani'
\* having no effect
C7_Witness ==
  /\ uOut.done
  /\ uIn.params.keys = {"startTime", "endTime", "date"}
  /\ uIn.params.startTime = <<"16", ":", "00">>
  /\ uIn.params.endTime = <<"16", ":", "30">>
  /\ uIn.params.date = <<"domani">>
  /\ uIn.start = 9 * 60 + 30
  /\ uOut.start = 16 * 60
  /\ uOut.end = 16 * 60 + 30

\* C8: a SHIFT timeModification moves start and end by the same signed
\* offset (amount hours or minutes, negative when BACKWARD), so the duration
\* of the event is what it was.
C8_ShiftPreservesDuration ==
  LET tm == uIn.params.timeModification
      offset == (IF tm.direction = "BACKWARD" THEN -1 ELSE 1) * tm.amount
                  * (IF tm.unit = "HOUR" THEN 60 ELSE 1)
  IN  (uOut.done /\ "timeModification" \in uIn.params.keys /\ tm.type = "SHIFT")
        => /\ uOut.start - uIn.start = offset
           /\ uOut.end - uIn.end = offset
           /\ uOut.end - uOut.start = uIn.end - uIn.start

\* C8 witness: SHIFT FORWARD 1 HOUR on the event of 15:00-16:00 gives
\* 16:00-17:00
C8_Witness ==
  /\ uOut.done
  /\ uIn.start = 15 * 60 /\ uIn.end = 16 * 60
  /\ uIn.params.keys = {"timeModification"}
  /\ uIn.params.timeModification = Shift("FORWARD", 1, "HOUR")
  /\ uOut.start = 16 * 60 /\ uOut.end = 17 * 60

----------------------------------------------------------------------------
(* Properties of the event reference resolver                              *)

\* C11: for an UPDATE_EVENT or DELETE_EVENT without eventId that gives a
\* title, the target is never the id taken from the event reference
\* context: once such a command has a target, the context lookup made for
\* it, if any, returned nothing
C11_ContextOnlyWithoutTitle ==
  \A r \in Requests :
    (/\ req[r].action \in {UPDATE_EVENT, DELETE_EVENT}
     /\ ~Truthy(req[r].params, "eventId")
     /\ Truthy(req[r].params, "title")
     /\ req[r].eventId # "")
    => req[r].ctxId = ""

----------------------------------------------------------------------------
(* Properties of the event reference context under overlapping commands    *)

\* C12: whatever the interleaving of two commands in flight, every change
\* of the event reference context installs the id, the title and the
\* timestamp of one and the same successful update, the one that is
\* returning in that step; the slot therefore always holds the whole
\* triple of the update that wrote last
C12_LastWriterWinsWhole ==
  [][ctx' # ctx =>
       \E r \in Requests :
          /\ req[r].pc = "upd_put"
          /\ req'[r].pc = "done"
          /\ req'[r].result.status = "success"
          /\ ctx' = [id |-> req[r].eventId, title |-> req[r].updated.summary,
                     timestamp |-> now, set |-> TRUE]]_vars

\* Two updates overlapped: r2 started while the context was still empty,
\* r1 wrote the context of e2, then r2 wrote the context of e1, which the
\* slot now holds
C12_Witness ==
  /\ req["r1"].result.status = "success"
  /\ req["r1"].action = UPDATE_EVENT
  /\ req["r1"].eventId = "e2"
  /\ req["r2"].result.status = "success"
  /\ req["r2"].action = UPDATE_EVENT
  /\ req["r2"].eventId = "e1"
  /\ req["r2"].ctxRead
  /\ req["r2"].ctxAtRead = NoContext
  /\ req["r1"].doneAt < req["r2"].doneAt
  /\ req["r1"].ctxAfter.id = "e2"
  /\ ctx = [id |-> "e1", title |-> req["r2"].updated.summary,
            timestamp |-> req["r2"].doneAt, set |-> TRUE]

----------------------------------------------------------------------------
(* Properties of findEventByTitle                                          *)

\* C13: if some candidate's title equals the search title, letter case
\* aside, findEventByTitle returns the id of a candidate whose title equals
\* the search title, never that of a partially matching candidate
C13_ExactMatchWins ==
  (/\ fIn.fn = "findEventByTitle"
   /\ fOut.done
   /\ \E i \in 1..Len(fOut.items) :
         toLowerCase(fIn.evs[fOut.items[i]].summary) = toLowerCase(fIn.title))
  => /\ fOut.res.found
     /\ toLowerCase(fIn.evs[fOut.res.id].summary) = toLowerCase(fIn.title)

\* C14: when the search title is "Riunione" and exactly two candidates are
\* titled "Riunione" and start today, findEventByTitle throws and returns
\* neither id
C14_TwoIdenticalTitlesAmbiguous ==
  (/\ fIn.fn = "findEventByTitle"
   /\ fOut.done
   /\ fIn.title = <<"Riunione">>
   /\ Cardinality({i \in 1..Len(fOut.items) :
                     /\ fIn.evs[fOut.items[i]].summary = <<"Riunione">>
                     /\ Midnight(fIn.evs[fOut.items[i]].start) = Midnight(now)}) = 2)
  => ~fOut.res.found

----------------------------------------------------------------------------
(* Properties of the attendees of an updated event                         *)

\* C15: an update with attendeesAction = ADD and a non-empty attendees list
\* keeps the existing attendees in place, in front, and the resulting list
\* holds no address twice; without ADD a non-empty list replaces the
\* existing one
C15_AddMergesWithoutDuplicates ==
  (/\ fIn.fn = "updateEvent.attendees"
   /\ fOut.done
   /\ "attendees" \in fIn.params.keys
   /\ Len(fIn.params.attendees) > 0)
  => IF fIn.params.attendeesAction = "ADD"
     THEN /\ Len(fOut.attendees) >= Len(fIn.existing.attendees)
          /\ SubSeq(fOut.attendees, 1, Len(fIn.existing.attendees)) = fIn.existing.attendees
          /\ \A i, j \in 1..Len(fOut.attendees) :
                fOut.attendees[i] = fOut.attendees[j] => i = j
     ELSE fOut.attendees = prepareAttendees(fIn.params.attendees)

----------------------------------------------------------------------------
(* Properties of createEvent and listEvents, checked under Spec            *)

\* C16: when the duplicate search of createEvent returns at least one
\* event, the command returns success: false with potentialDuplicate: true
\* as a result, not as an exception, in the very step that receives the
\* list, leaving the calendar as it was; the command never gets to the
\* insert call
C16_DuplicateRefusedWithoutInsert ==
  /\ [](\A r \in Requests :
          (req[r].action = CREATE_EVENT /\ req[r].items # <<>>)
            => /\ req[r].pc = "done"
               /\ req[r].result.status = "refused"
               /\ req[r].result.potentialDuplicate
               /\ req[r].updated = NoEvent)
  /\ [][\A r \in Requests :
          (req[r].pc = "create_list" /\ req'[r].items # <<>>)
            => events' = events /\ req'[r].pc = "done"]_vars

\* 'Riunione con Mario' is asked for today at 15:00, where the event of
\* that title already stands: the command has returned the refusal
C16_Witness ==
  /\ req["r1"].pc = "done"
  /\ req["r1"].action = CREATE_EVENT
  /\ req["r1"].params.title = RiunioneConMario
  /\ req["r1"].items = <<"e1">>
  /\ req["r1"].result.status = "refused"
  /\ req["r1"].result.potentialDuplicate
  /\ ~events["e3"].live

\* C17: a VIEW_EVENTS command only lists: it waits for no backend call but
\* the list, no step of it changes the calendar or the event reference
\* context, and when the list call succeeds it returns success, with an
\* empty list and no failure when nothing matches
C17_ViewHasNoSideEffect ==
  /\ [](\A r \in Requests :
          req[r].action = VIEW_EVENTS
            => /\ req[r].pc \in {"view_list", "done"}
               /\ req[r].attempted = <<>>
               /\ req[r].updated = NoEvent
               /\ (req[r].pc = "done" /\ ~req[r].backendFailed)
                    => /\ req[r].result.status = "success"
                       /\ req[r].result.count = Len(req[r].items))
  /\ [][\A r \in Requests :
          (req'[r].action = VIEW_EVENTS /\ req'[r] # req[r])
            => events' = events /\ ctx' = ctx]_vars

\* The events of tomorrow were asked for after an update had stored a
\* context: nothing matched, the command succeeded with an empty list, and
\* the calendar and the context are as the update left them
C17_Witness ==
  /\ req["r1"].pc = "done"
  /\ req["r1"].action = VIEW_EVENTS
  /\ Truthy(req["r1"].params, "date")
  /\ req["r1"].result.status = "success"
  /\ req["r1"].items = <<>>
  /\ req["r1"].result.count = 0
  /\ ctx.set
  /\ req["r1"].ctxAfter = ctx
  /\ events["e1"].live /\ events["e2"].live

----------------------------------------------------------------------------
(* Properties of the local fallback parser, checked under SpecFun          *)

\* C18: parseCommandLocally raises for no input
C18_LocalParserNeverRaises ==
  (fIn.fn = "parseCommandLocally" /\ fOut.done) => ~fOut.res.threw

\* C19: the action of the local parser is that of the first class, in the
\* order create, update, delete, view, one of whose keywords the lower-cased
\* command contains, and VIEW_EVENTS when it contains none
C19_KeywordPriorityAsStated ==
  (fIn.fn = "parseCommandLocally" /\ fOut.done /\ fIn.isString)
  => LET lowerCommand == toLowerCase(fIn.command)
         create == includes(lowerCommand, <<"crea">>)
         update == \E k \in {"modifica", "sposta", "anticipa", "posticipa"} :
                      includes(lowerCommand, <<k>>)
         delete == includes(lowerCommand, <<"elimina">>)
     IN  fOut.res.val.action =
           IF create THEN CREATE_EVENT
           ELSE IF update THEN UPDATE_EVENT
           ELSE IF delete THEN DELETE_EVENT
           ELSE VIEW_EVENTS

----------------------------------------------------------------------------
(* Properties of the date resolver, checked under SpecFun                  *)

\* C20: "prossimo" or "prossima" followed by a weekday resolves to the
\* midnight of a day 1 to 7 days after the reference date that falls on
\* that weekday; when the reference date falls on that weekday it is the
\* day 7 days later, never the reference date
C20_NextWeekdayOneToSevenDays ==
  (fIn.fn = "parseDateFromText" /\ fOut.done)
  => LET w == fIn.dateText[3]
         target == CASE w \in {"lunedì", "lunedi"}       -> 1
                     [] w \in {"martedì", "martedi"}     -> 2
                     [] w \in {"mercoledì", "mercoledi"} -> 3
                     [] w \in {"giovedì", "giovedi"}     -> 4
                     [] w \in {"venerdì", "venerdi"}     -> 5
                     [] w = "sabato"                     -> 6
                     [] w = "domenica"                   -> 0
         ref   == Midnight(fIn.baseDate)
         added == fOut.res.value - ref
     IN  /\ ~fOut.res.threw
         /\ added \in {n * Day : n \in 1..7}
         /\ getDay(fOut.res.value) = target
         /\ getDay(fIn.baseDate) = target => added = 7 * Day

\* "prossimo giovedì" resolved at 10:00 of a Thursday: the Thursday after
C20_Witness ==
  /\ fIn.fn = "parseDateFromText"
  /\ fIn.dateText = <<"prossimo", Space, "giovedì">>
  /\ fIn.baseDate = 10 * Hour
  /\ getDay(fIn.baseDate) = 4
  /\ fOut.done
  /\ fOut.res.value = 7 * Day

----------------------------------------------------------------------------
(* Properties of normalizeResponse, checked under SpecFun                  *)

\* C21: given a nested object whose action is canonical and whose
\* parameters use the canonical keys (a view carrying its maxResults),
\* normalizeResponse returns the same action and the same parameters,
\* whatever the command text
C21_CanonicalInputUnchanged ==
  (/\ fIn.fn = "normalizeResponse"
   /\ fOut.done
   /\ fIn.parsedResult.action \in CanonicalActions
   /\ fIn.parsedResult.action = VIEW_EVENTS
        => Truthy(fIn.parsedResult.parameters, "maxResults"))
  => /\ fOut.res.ok
     /\ fOut.res.val.action = fIn.parsedResult.action
     /\ fOut.res.val.parameters = fIn.parsedResult.parameters

\* C22: every VIEW_EVENTS object returned by normalizeResponse carries
\* maxResults: the value of the parsed object when it has one, 10
\* otherwise, for the nested form and for the flat form alike
C22_ViewAlwaysHasMaxResults ==
  (/\ fIn.fn = "normalizeResponse"
   /\ fOut.done
   /\ fOut.res.ok
   /\ fOut.res.val.action = VIEW_EVENTS)
  => /\ "maxResults" \in fOut.res.val.parameters.keys
     /\ fOut.res.val.parameters.maxResults =
          IF fIn.parsedResult.hasParameters
            THEN IF Truthy(fIn.parsedResult.parameters, "maxResults")
                   THEN fIn.parsedResult.parameters.maxResults ELSE 10
            ELSE IF Truthy(fIn.parsedResult.top, "maxResults")
                   THEN fIn.parsedResult.top.maxResults ELSE 10

\* C23: for "Posticipa la riunione con Mario di due ore" and an update
\* object without startTime, endTime and timeModification, the
\* timeModification of the result is a forward shift of 2 hours
C23_NumberWordAmount ==
  (/\ fIn.fn = "normalizeResponse"
   /\ fOut.done
   /\ fIn.originalCommand =
        <<"Posticipa", Space, "la", Space, "riunione", Space, "con", Space, "Mario",
          Space, "di", Space, "due", Space, "ore">>
   /\ fIn.parsedResult.action = UPDATE_EVENT
   /\ fIn.parsedResult.parameters.keys \cap
        {"startTime", "endTime", "timeModification"} = {})
  => /\ fOut.res.ok
     /\ "timeModification" \in fOut.res.val.parameters.keys
     /\ fOut.res.val.parameters.timeModification = Shift("FORWARD", 2, "HOUR")

\* C24: the result of normalizeResponse has a timeModification the parsed
\* object did not have only when the action is UPDATE_EVENT and the parsed
\* object has neither startTime nor endTime, and a timeModification of the
\* parsed object is returned as it is
C24_TextDerivedOnlyForUpdate ==
  (/\ fIn.fn = "normalizeResponse"
   /\ fOut.done
   /\ fIn.parsedResult.hasParameters
   /\ fOut.res.ok)
  => /\ ("timeModification" \in fOut.res.val.parameters.keys
          /\ "timeModification" \notin fIn.parsedResult.parameters.keys)
         => /\ fOut.res.val.action = UPDATE_EVENT
            /\ fIn.parsedResult.parameters.keys \cap {"startTime", "endTime"} = {}
     /\ "timeModification" \in fIn.parsedResult.parameters.keys
         => /\ "timeModification" \in fOut.res.val.parameters.keys
            /\ fOut.res.val.parameters.timeModification =
                 fIn.parsedResult.parameters.timeModification

\* C25: when a command with a shift verb has a minute count ("N minuti"),
\* the timeModification of the local parser has unit MINUTE and amount N
C25_MinuteCountOverrides ==
  (/\ fIn.fn = "parseCommandLocally"
   /\ fOut.done
   /\ fIn.isString
   /\ \E k \in {"posticipa", "ritarda", "sposta", "anticipa"} :
        includes(toLowerCase(fIn.command), <<k>>)
   /\ MinuteMatches(toLowerCase(fIn.command)) # {})
  => /\ ~fOut.res.threw
     /\ "timeModification" \in fOut.res.val.parameters.keys
     /\ fOut.res.val.parameters.timeModification.type = "SHIFT"
     /\ fOut.res.val.parameters.timeModification.unit = "MINUTE"
     /\ fOut.res.val.parameters.timeModification.amount =
          NumVal(toLowerCase(fIn.command)[SetMin(MinuteMatches(toLowerCase(fIn.command)))])

----------------------------------------------------------------------------
(* Properties of the date words and of the shift direction in the route    *)

\* C26: for a command that contains "dopodomani" and not "oggi", the
\* specificDate of the preprocessor is "dopodomani", and so is the date of
\* the local parser when the route falls back to it
C26_DopodomaniReportedAsItself ==
  (/\ pPc # "idle"
   /\ includes(toLowerCase(pCmd), <<"dopodomani">>)
   /\ ~includes(toLowerCase(pCmd), <<"oggi">>))
  => /\ "specificDate" \in pMeta.detectedEntities.keys
     /\ pMeta.detectedEntities.specificDate = <<"dopodomani">>
     /\ (pReply.kind # "none" /\ ~pInterp.threw /\ pInterp.fallback)
          => /\ "date" \in pInterp.val.parameters.keys
             /\ pInterp.val.parameters.date = <<"dopodomani">>

\* C30: a timeModification the route hands to the executor and the LLM did
\* not supply has direction BACKWARD when the command has the verb
\* "anticipa" and FORWARD when it has the verb "posticipa", whatever the
\* unit of the amount
C30_DirectionAgreesWithVerb ==
  LET lowerCommand == toLowerCase(pCmd)
      supplied == /\ pReply.kind = "text"
                  /\ ~pInterp.fallback
                  /\ \E i \in 1..Len(pReply.text) :
                       /\ pReply.text[i] \in Bodies
                       /\ "timeModification" \in
                            JsonBody(pReply.text[i]).json.parameters.keys
  IN  (/\ pPc = "executing"
       /\ pLlmCalls = 1
       /\ ~supplied
       /\ "timeModification" \in pParsed.parameters.keys)
      => /\ (/\ includes(lowerCommand, <<"anticipa">>)
             /\ \A k \in {"posticipa", "ritarda", "sposta"} :
                  ~includes(lowerCommand, <<k>>))
            => pParsed.parameters.timeModification.direction = "BACKWARD"
         /\ (/\ includes(lowerCommand, <<"posticipa">>)
             /\ ~includes(lowerCommand, <<"anticipa">>))
            => pParsed.parameters.timeModification.direction = "FORWARD"

----------------------------------------------------------------------------
(* Properties of overlapping updates and of the context after a delete     *)

\* C27: when two updates that carry a SHIFT timeModification have both
\* succeeded on the same event, the start of the event is its original
\* start plus the two signed shifts, however their get and update calls
\* interleaved
C27_NoShiftLost ==
  LET signed(r) ==
        LET tm == req[r].params.timeModification
        IN  (IF tm.direction = "FORWARD" THEN 1 ELSE -1) * tm.amount *
            (IF tm.unit = "HOUR" THEN Hour ELSE 1)
      shifted(r) ==
        /\ req[r].pc = "done"
        /\ req[r].action = UPDATE_EVENT
        /\ req[r].result.status = "success"
        /\ "timeModification" \in req[r].params.keys
        /\ req[r].params.timeModification.type = "SHIFT"
  IN  (/\ shifted("r1")
       /\ shifted("r2")
       /\ req["r1"].eventId = req["r2"].eventId)
      => events[req["r1"].eventId].start =
           InitialEvents[req["r1"].eventId].start + signed("r1") + signed("r2")

\* C28: the id a valid event reference context gives, the one an update
\* without eventId is directed at, is never the id of an event that
\* deleteEvent has deleted
C28_ContextNeverNamesDeleted ==
  LET id == getLastEventIdFromContext(ctx, now)
  IN  id # "" => events[id].live

----------------------------------------------------------------------------
(* Properties of extractTimeModification                                   *)

====
